---------------------------- MODULE Spec2Model ----------------------------
(* Local multi-database persistence and synchronisation layer of the      *)
(* event tracker (src/App.tsx): the IndexedDB store adapter, the snapshot *)
(* loader, the pending-action queue, the debounced sync engine and the    *)
(* database switch / merge controller, as one state machine.              *)
EXTENDS Integers, Sequences, FiniteSets, TLC

(***************************************************************************)
(* Bounds of the model                                                     *)
(***************************************************************************)
MaxQueue == 2      \* longest pending-action queue explored
MaxClock == 2      \* last tick of the clock behind Date.now() at which the user edits data
MaxNav == 3        \* database-manager gestures (open, pick, confirm, cancel) per session
MaxFold == 3       \* longest action sequence handed to applyPendingActions on its own

(***************************************************************************)
(* Program constants                                                       *)
(***************************************************************************)
DEFAULT_DB_NAME == "essenmelia-db-default"
DEMO_DB_NAME == "essenmelia-db-demo"
TEMP_STORAGE_DB_NAME == "temp-storage"
UserDb == "essenmelia-db-work"
NoDb == ""

RealDbs == {DEFAULT_DB_NAME, UserDb}

TutorialTag == "A"
Tags == {"A", "B"}
TutorialId == 0
DemoId == 100

Ev(i, t, s, tg, url, orig) ==
  [id |-> i, title |-> t, steps |-> s, tags |-> tg, imageUrl |-> url,
   hasOriginalImage |-> orig]

tutorialEvent == Ev(TutorialId, "tutorial", <<FALSE>>, <<TutorialTag>>, "url", FALSE)
demoEvents == << Ev(DemoId, "demo", <<TRUE>>, <<"B">>, "url", FALSE) >>
demoTags == << "B" >>
demoStepTemplates == << 100 >>
demoStepSetTemplates == << 100 >>

(***************************************************************************)
(* Sequence helpers                                                        *)
(***************************************************************************)
Range(s) == { s[i] : i \in 1..Len(s) }
Includes(s, x) == \E i \in 1..Len(s) : s[i] = x
Ids(evs) == { evs[i].id : i \in 1..Len(evs) }

RECURSIVE SeqOfSet(_)
\* IDBObjectStore.getAll(): records come back in ascending key order; the key
\* 'event-tutorial-1' sorts after every 'event-<digits>' key.
KeyLess(a, b) == IF a = TutorialId THEN FALSE ELSE IF b = TutorialId THEN TRUE ELSE a < b
SeqOfSet(S) ==
  IF S = {} THEN <<>>
  ELSE LET m == CHOOSE x \in S : \A y \in S \ {x} : KeyLess(x.id, y.id)
       IN <<m>> \o SeqOfSet(S \ {m})

RECURSIVE SeqOfNats(_)
SeqOfNats(S) ==
  IF S = {} THEN <<>>
  ELSE LET m == CHOOSE x \in S : \A y \in S : x <= y
       IN <<m>> \o SeqOfNats(S \ {m})

(***************************************************************************)
(* Pending actions and the fold (applyPendingActions)                      *)
(***************************************************************************)
AddEventAction(e, img) == [type |-> "ADD_EVENT", event |-> e, originalImage |-> img]
UpdateEventAction(e, img) == [type |-> "UPDATE_EVENT", event |-> e, originalImage |-> img]
DeleteEventAction(i) == [type |-> "DELETE_EVENT", eventId |-> i]
UpdateStepsAction(i, s) == [type |-> "UPDATE_EVENT_STEPS", eventId |-> i, steps |-> s]
AddTagAction(t) == [type |-> "ADD_TAG", tag |-> t]
DeleteTagsAction(ts) == [type |-> "DELETE_TAGS", tags |-> ts]
RenameTagAction(o, n) == [type |-> "RENAME_TAG", oldTag |-> o, newTag |-> n]
ReorderTagsAction(ts) == [type |-> "REORDER_TAGS", tags |-> ts]

FilterTags(tg, deleteSet) == SelectSeq(tg, LAMBDA t : t \notin deleteSet)
RenameIn(tg, o, n) == [i \in 1..Len(tg) |-> IF tg[i] = o THEN n ELSE tg[i]]
\* A tag deletion that leaves the events as they are.
StripTagsSkipped(evs, deleteSet) == evs
\* A tag rename that leaves the events as they are.
RenameTagsSkipped(evs, o, n) == evs

StripTags(evs, deleteSet) ==
  [i \in 1..Len(evs) |-> [evs[i] EXCEPT !.tags = FilterTags(@, deleteSet)]]
RenameTags(evs, o, n) ==
  [i \in 1..Len(evs) |-> [evs[i] EXCEPT !.tags = RenameIn(@, o, n)]]

\* An ADD_EVENT case without the `some(e => e.id === ...)` test.
AddEventCaseUnguarded(st, a) == [st EXCEPT !.events = <<a.event>> \o @]

\* case 'ADD_EVENT' of applyPendingActions
AddEventCase(st, a) ==
  IF a.event.id \in Ids(st.events) THEN st
  ELSE [st EXCEPT !.events = <<a.event>> \o @]

\* One case of the switch in applyPendingActions.
ApplyAction(st, a) ==
  CASE a.type = "ADD_EVENT" -> AddEventCase(st, a)
    [] a.type = "UPDATE_EVENT" ->
         [st EXCEPT !.events =
            [i \in 1..Len(@) |-> IF @[i].id = a.event.id THEN a.event ELSE @[i]]]
    [] a.type = "DELETE_EVENT" ->
         [st EXCEPT !.events = SelectSeq(@, LAMBDA e : e.id # a.eventId)]
    [] a.type = "UPDATE_EVENT_STEPS" ->
         [st EXCEPT !.events =
            [i \in 1..Len(@) |->
               IF @[i].id = a.eventId THEN [@[i] EXCEPT !.steps = a.steps] ELSE @[i]]]
    [] a.type = "ADD_TAG" ->
         IF Includes(st.tags, a.tag) THEN st
         ELSE [st EXCEPT !.tags = Append(@, a.tag)]
    [] a.type = "DELETE_TAGS" ->
         [events |-> StripTags(st.events, a.tags),
          tags |-> FilterTags(st.tags, a.tags)]
    [] a.type = "RENAME_TAG" ->
         [events |-> RenameTags(st.events, a.oldTag, a.newTag),
          tags |-> RenameIn(st.tags, a.oldTag, a.newTag)]
    [] a.type = "REORDER_TAGS" ->
         [st EXCEPT !.tags = a.tags]

RECURSIVE FoldActions(_, _)
FoldActions(st, actions) ==
  IF actions = <<>> THEN st
  ELSE FoldActions(ApplyAction(st, Head(actions)), Tail(actions))

applyPendingActions(baseEvents, baseTags, actions) ==
  LET r == FoldActions([events |-> baseEvents, tags |-> baseTags], actions)
  IN [processedEvents |-> r.events, processedTags |-> r.tags]

(***************************************************************************)
(* State                                                                   *)
(***************************************************************************)
VARIABLES
  activeDbName,           \* useState<string>('')
  userDbNames,            \* registry shown in the database manager
  events, customTags, stepTemplates, stepSetTemplates,   \* in-memory snapshot
  isLoading,
  pendingActions,         \* the pending-action queue
  dbError,                \* degraded flag (dbError !== null)
  dbStatus,               \* transient status banner (message kind)
  notification,           \* modal notification (kind)
  isDbManagerOpen,
  confirmDiscardChanges,  \* target awaiting a discard confirmation, or NoDb
  dbToDelete,             \* database awaiting a delete confirmation, or NoDb
  idb,                    \* IndexedDB: one record per database name
  lsActiveDbName,         \* localStorage 'activeDbName' (NoDb = absent)
  hasLaunchedBefore,      \* localStorage 'hasLaunchedBefore'
  storageOk,              \* environment: the storage engine currently works
  initApp,                \* position of initializeApp and the database it loads
  sync,                   \* performSync in flight, with the values its closure holds
  switch,                 \* handleSwitchDb in flight, with the values its closure holds
  create,                 \* handleCreateNewDb in flight, with the values its closure holds
  beforeUnloadListener,   \* handleBeforeUnload is registered on window
  saveTimer,              \* the debounced saveData timer is armed
  activeFilters,          \* view-local status and tag filters
  searchQuery,            \* view-local search text
  clock,                  \* Date.now(): advanced by every edit, names new events
  nav,                    \* database-manager gestures made so far in this session
  lastOp                  \* the handler (and outcome) that produced this state

snapshotVars == <<events, customTags, stepTemplates, stepSetTemplates>>
uiVars == <<dbStatus, notification, isDbManagerOpen, confirmDiscardChanges, dbToDelete>>
envVars == <<idb, lsActiveDbName, hasLaunchedBefore, storageOk>>
viewVars == <<activeFilters, searchQuery>>
vars == <<activeDbName, userDbNames, events, customTags, stepTemplates, stepSetTemplates,
          isLoading, pendingActions, dbError, dbStatus, notification, isDbManagerOpen,
          confirmDiscardChanges, dbToDelete, idb, lsActiveDbName, hasLaunchedBefore,
          storageOk, initApp, sync, switch, create, beforeUnloadListener, saveTimer,
          activeFilters, searchQuery, clock, nav, lastOp>>

\* An effect that tests dbError alone when it decides to register the listener.
beforeunloadEffectAnyError ==
  beforeUnloadListener' =
    IF <<dbError', pendingActions'>> = <<dbError, pendingActions>> THEN beforeUnloadListener
    ELSE dbError'

\* The effect on [dbError, pendingActions], run after the render of a step:
\* when a dependency changed, the cleanup removes the listener and the effect
\* registers it again if dbError is set and the queue is not empty.
beforeunloadEffect ==
  beforeUnloadListener' =
    IF <<dbError', pendingActions'>> = <<dbError, pendingActions>> THEN beforeUnloadListener
    ELSE dbError' /\ Len(pendingActions') > 0

IdbNames == RealDbs \cup {DEMO_DB_NAME}

\* useState<ActiveFilters>({ status: 'all', tags: [] })
NoFilters == [status |-> "all", tags |-> <<>>]

isTempStorageMode == activeDbName = TEMP_STORAGE_DB_NAME
\* The condition `isLoading || isTempStorageMode || dbError` of every mutation handler.
CannotWriteNow == isLoading \/ isTempStorageMode \/ dbError

StatusType(s) ==
  CASE s \in {"syncing", "connecting", "merging"} -> "loading"
    [] s \in {"syncDone", "merged", "switched"} -> "success"
    [] s \in {"syncFailed", "loadFailed"} -> "error"
    [] s \in {"noDatabase", "tempMode", "lastDbDeleted"} -> "info"
    [] OTHER -> "none"

(***************************************************************************)
(* Store adapter                                                           *)
(***************************************************************************)
NoDatabase ==
  [exists |-> FALSE, isSeeded |-> FALSE, events |-> {}, tags |-> <<>>,
   stepTemplates |-> {}, stepSetTemplates |-> {}, originalImages |-> {}]

\* saveDataInStore on a keyPath:'id' store: clear, then put every item; a later
\* item with the same id overwrites an earlier one.
PutAllById(evs) ==
  { evs[i] : i \in { k \in 1..Len(evs) : \A j \in (k+1)..Len(evs) : evs[j].id # evs[k].id } }

\* initDB: indexedDB.open creates the database and its stores when missing.
Opened(rec) == [rec EXCEPT !.exists = TRUE]

\* WriteSnapshot without the saveTagsInStore call.
WriteSnapshotNoTags(rec, evs, tgs, tpls, sets, ok) ==
  [(IF ok.events \/ ok.stepTemplates \/ ok.stepSetTemplates THEN [rec EXCEPT !.exists = TRUE]
    ELSE rec) EXCEPT
     !.events = IF ok.events THEN { evs[i] : i \in 1..Len(evs) } ELSE @,
     !.stepTemplates = IF ok.stepTemplates THEN { tpls[i] : i \in 1..Len(tpls) } ELSE @,
     !.stepSetTemplates = IF ok.stepSetTemplates THEN { sets[i] : i \in 1..Len(sets) } ELSE @]

\* The four writes of saveDataToDb / saveData / the seeding in loadData, each its
\* own transaction; ok.x tells whether that transaction committed.
SomeOk(ok) == ok.events \/ ok.tags \/ ok.stepTemplates \/ ok.stepSetTemplates
WriteSnapshot(rec, evs, tgs, tpls, sets, ok) ==
  [(IF SomeOk(ok) THEN Opened(rec) ELSE rec) EXCEPT
     !.events = IF ok.events THEN PutAllById(evs) ELSE @,
     !.tags = IF ok.tags THEN tgs ELSE @,
     !.stepTemplates = IF ok.stepTemplates THEN Range(tpls) ELSE @,
     !.stepSetTemplates = IF ok.stepSetTemplates THEN Range(sets) ELSE @]

AllOk == [events |-> TRUE, tags |-> TRUE, stepTemplates |-> TRUE, stepSetTemplates |-> TRUE]
Outcomes == [events : BOOLEAN, tags : BOOLEAN, stepTemplates : BOOLEAN, stepSetTemplates : BOOLEAN]
\* What a composite write can do: everything commits while the engine works,
\* and at least one transaction is rejected while it does not.
WriteOutcomes == IF storageOk THEN {AllOk} ELSE Outcomes \ {AllOk}

\* The per-action side writes of performSync on the originalImages store, in
\* queue order; okAt is the set of queue positions whose transaction committed.
RECURSIVE ImageWrites(_, _, _, _)
ImageWrites(imgs, actions, k, okAt) ==
  IF k > Len(actions) THEN imgs
  ELSE LET a == actions[k]
           next ==
             IF k \notin okAt THEN imgs
             ELSE CASE a.type = "ADD_EVENT" /\ a.originalImage = "file" -> imgs \cup {a.event.id}
                    [] a.type = "UPDATE_EVENT" /\ a.originalImage = "remove" -> imgs \ {a.event.id}
                    [] a.type = "UPDATE_EVENT" /\ a.originalImage = "file" -> imgs \cup {a.event.id}
                    [] a.type = "DELETE_EVENT" -> imgs \ {a.eventId}
                    [] OTHER -> imgs
       IN ImageWrites(next, actions, k + 1, okAt)

\* Queue positions that issue a side write at all.
ImagePositions(actions) ==
  { k \in 1..Len(actions) :
      \/ actions[k].type = "ADD_EVENT" /\ actions[k].originalImage = "file"
      \/ actions[k].type = "UPDATE_EVENT" /\ actions[k].originalImage # "none"
      \/ actions[k].type = "DELETE_EVENT" }

(***************************************************************************)
(* Domain snapshot loader (loadData)                                       *)
(***************************************************************************)
Snapshot(evs, tgs, tpls, sets) ==
  [events |-> evs, tags |-> tgs, stepTemplates |-> tpls, stepSetTemplates |-> sets]

\* The snapshot loadData(db) returns when the engine works.
LoadedSnapshot(db) ==
  IF db = DEMO_DB_NAME THEN Snapshot(demoEvents, demoTags, demoStepTemplates, demoStepSetTemplates)
  ELSE IF ~idb[db].isSeeded /\ db = DEFAULT_DB_NAME THEN Snapshot(<<tutorialEvent>>, <<TutorialTag>>, <<>>, <<>>)
  ELSE IF ~idb[db].isSeeded THEN Snapshot(<<>>, <<>>, <<>>, <<>>)
  ELSE Snapshot(SeqOfSet(idb[db].events), idb[db].tags,
                SeqOfNats(idb[db].stepTemplates), SeqOfNats(idb[db].stepSetTemplates))

\* loadData that seeds without looking at the 'isSeeded' marker.
RecordAfterLoadReseeds(db) ==
  IF db = DEMO_DB_NAME THEN idb[db]
  ELSE LET evs == IF db = DEFAULT_DB_NAME THEN <<tutorialEvent>> ELSE <<>>
           tgs == IF db = DEFAULT_DB_NAME THEN <<TutorialTag>> ELSE <<>>
       IN [WriteSnapshot(idb[db], evs, tgs, <<>>, <<>>, AllOk) EXCEPT !.isSeeded = TRUE]

\* The database record loadData(db) leaves behind (first load seeds it).
RecordAfterLoad(db) ==
  IF db = DEMO_DB_NAME THEN idb[db]
  ELSE IF ~idb[db].isSeeded
       THEN LET s == LoadedSnapshot(db)
            IN [WriteSnapshot(idb[db], s.events, s.tags, s.stepTemplates, s.stepSetTemplates, AllOk)
                  EXCEPT !.isSeeded = TRUE]
       ELSE Opened(idb[db])

\* The records a rejected loadData(db) can leave behind: the seeding of a first
\* load is four transactions and a marker write, and the ones that committed
\* before the engine failed stay, without the marker.
FailedLoadRecords(db) ==
  IF db = DEMO_DB_NAME \/ idb[db].isSeeded THEN {idb[db]}
  ELSE LET s == LoadedSnapshot(db)
       IN { WriteSnapshot(idb[db], s.events, s.tags, s.stepTemplates, s.stepSetTemplates, ok) :
              ok \in Outcomes }

\* loadData(db) can complete: the demo data set needs no storage.
CanLoad(db) == db = DEMO_DB_NAME \/ storageOk

\* discoverDatabases: the names indexedDB.databases() lists. The order of that
\* list is the engine's; here the user-created database comes first.
discoverDatabases ==
  IF ~storageOk THEN <<>>
  ELSE SelectSeq(<<UserDb, DEFAULT_DB_NAME, DEMO_DB_NAME>>, LAMBDA n : idb[n].exists)

\* The debounced saveData timer is armed exactly when it would write data.
SaveArmed(queue, loading, active) ==
  queue = <<>> /\ ~loading /\ active \in RealDbs

IdleSync == [pc |-> "idle", db |-> NoDb, events |-> <<>>, tags |-> <<>>, actions |-> <<>>]
IdleCreate == [pc |-> "idle", fullName |-> NoDb, userDbNames |-> <<>>]
IdleSwitch ==
  [pc |-> "idle", target |-> NoDb, merge |-> FALSE, actions |-> <<>>, deleting |-> NoDb,
   newDbNames |-> <<>>]
\* handleSwitchDb has returned inside handleDeleteDb(d): what is left in flight
\* is the indexedDB.deleteDatabase(d) request (nothing, outside handleDeleteDb).
Settled(d, newDbNames) ==
  IF d = NoDb THEN IdleSwitch
  ELSE [IdleSwitch EXCEPT !.pc = "deleting", !.deleting = d, !.newDbNames = newDbNames]

(***************************************************************************)
(* Initial state: the component just mounted, initializeApp not yet run    *)
(***************************************************************************)
SeededDefault ==
  [exists |-> TRUE, isSeeded |-> TRUE, events |-> {tutorialEvent}, tags |-> <<TutorialTag>>,
   stepTemplates |-> {}, stepSetTemplates |-> {}, originalImages |-> {}]
SeededEmpty ==
  [exists |-> TRUE, isSeeded |-> TRUE, events |-> {}, tags |-> <<>>,
   stepTemplates |-> {}, stepSetTemplates |-> {}, originalImages |-> {}]

Init ==
  /\ activeDbName = NoDb
  /\ userDbNames = <<>>
  /\ events = <<>> /\ customTags = <<>> /\ stepTemplates = <<>> /\ stepSetTemplates = <<>>
  /\ isLoading = TRUE
  /\ pendingActions = <<>>
  /\ dbError = FALSE
  /\ dbStatus = "none" /\ notification = "none"
  /\ isDbManagerOpen = FALSE
  /\ confirmDiscardChanges = NoDb /\ dbToDelete = NoDb
  /\ \/ /\ hasLaunchedBefore = FALSE          \* first launch, nothing stored
        /\ idb = [n \in IdbNames |-> NoDatabase]
        /\ lsActiveDbName = NoDb
     \/ /\ hasLaunchedBefore = TRUE           \* returning user with two databases
        /\ idb = [n \in IdbNames |->
                    IF n = DEFAULT_DB_NAME THEN SeededDefault
                    ELSE IF n = UserDb THEN SeededEmpty ELSE NoDatabase]
        /\ lsActiveDbName \in {DEFAULT_DB_NAME, UserDb}
     \/ /\ hasLaunchedBefore = TRUE           \* returning user, every database deleted
        /\ idb = [n \in IdbNames |-> NoDatabase]
        /\ lsActiveDbName = NoDb
  /\ storageOk \in BOOLEAN
  /\ initApp = [pc |-> "discover", db |-> NoDb]
  /\ sync = IdleSync
  /\ switch = IdleSwitch
  /\ create = IdleCreate
  /\ beforeUnloadListener = FALSE
  /\ saveTimer = FALSE
  /\ activeFilters = NoFilters
  /\ searchQuery = ""
  /\ clock = 1
  /\ nav = 0
  /\ lastOp = "mount"

(***************************************************************************)
(* Environment: the storage engine breaks and recovers                     *)
(***************************************************************************)
StorageBreaks ==
  /\ storageOk
  /\ storageOk' = FALSE
  /\ UNCHANGED <<activeDbName, userDbNames, snapshotVars, isLoading, pendingActions, dbError,
                 uiVars, idb, lsActiveDbName, hasLaunchedBefore, create, viewVars, initApp, sync, switch,
                 saveTimer, clock, nav, lastOp>>
  /\ beforeunloadEffect

StorageRecovers ==
  /\ ~storageOk
  /\ storageOk' = TRUE
  /\ UNCHANGED <<activeDbName, userDbNames, snapshotVars, isLoading, pendingActions, dbError,
                 uiVars, idb, lsActiveDbName, hasLaunchedBefore, create, viewVars, initApp, sync, switch,
                 saveTimer, clock, nav, lastOp>>
  /\ beforeunloadEffect

(***************************************************************************)
(* initializeApp (mount effect)                                            *)
(***************************************************************************)
\* initializeApp that falls back to the first discovered name without looking
\* for the default database.
ChooseActiveDbFirstFound(launched, detected, stored) ==
  IF ~launched THEN DEFAULT_DB_NAME
  ELSE IF detected = <<>> THEN TEMP_STORAGE_DB_NAME
  ELSE IF stored = NoDb \/ ~Includes(detected, stored) THEN detected[1]
       ELSE stored

\* The fixed precedence by which initializeApp picks the active database.
ChooseActiveDb(launched, detected, stored) ==
  IF ~launched THEN DEFAULT_DB_NAME
  ELSE IF detected = <<>> THEN TEMP_STORAGE_DB_NAME
  ELSE IF stored = NoDb \/ ~Includes(detected, stored)
       THEN (IF Includes(detected, DEFAULT_DB_NAME) THEN DEFAULT_DB_NAME ELSE detected[1])
       ELSE stored

\* initializeApp up to (not including) `await loadData(activeDb)`.
initializeApp_discover ==
  /\ initApp.pc = "discover"
  /\ LET found == discoverDatabases
         activeDb == ChooseActiveDb(hasLaunchedBefore, found, lsActiveDbName)
         detected == IF ~hasLaunchedBefore /\ ~Includes(found, DEFAULT_DB_NAME)
                     THEN <<DEFAULT_DB_NAME>> \o found ELSE found
     IN /\ userDbNames' = detected
        /\ activeDbName' = activeDb
        /\ hasLaunchedBefore' = TRUE
        /\ lsActiveDbName' = IF activeDb = TEMP_STORAGE_DB_NAME THEN NoDb ELSE activeDb
        /\ IF activeDb = TEMP_STORAGE_DB_NAME
           THEN /\ events' = <<>> /\ customTags' = <<>>
                /\ stepTemplates' = <<>> /\ stepSetTemplates' = <<>>
                /\ dbStatus' = "noDatabase"
                /\ isLoading' = FALSE
                /\ initApp' = [pc |-> "done", db |-> activeDb]
           ELSE /\ UNCHANGED <<snapshotVars, dbStatus, isLoading>>
                /\ initApp' = [pc |-> "load", db |-> activeDb]
        /\ saveTimer' = SaveArmed(pendingActions, isLoading', activeDb)
  /\ lastOp' = "initializeApp_discover"
  /\ UNCHANGED <<pendingActions, dbError, notification, isDbManagerOpen,
                 confirmDiscardChanges, dbToDelete, idb, storageOk, sync, switch, create,
                 viewVars, clock, nav>>
  /\ beforeunloadEffect

\* `await loadData(activeDb)` resolved. The closure of the mount effect holds the
\* pendingActions of the first render, which is empty, so nothing is replayed here.
initializeApp_loaded ==
  /\ initApp.pc = "load"
  /\ CanLoad(initApp.db)
  /\ LET data == LoadedSnapshot(initApp.db)
     IN /\ events' = data.events
        /\ customTags' = data.tags
        /\ stepTemplates' = data.stepTemplates
        /\ stepSetTemplates' = data.stepSetTemplates
  /\ idb' = [idb EXCEPT ![initApp.db] = RecordAfterLoad(initApp.db)]
  /\ isLoading' = FALSE
  /\ initApp' = [initApp EXCEPT !.pc = "done"]
  /\ saveTimer' = SaveArmed(pendingActions, FALSE, activeDbName)
  /\ lastOp' = "initializeApp_loaded"
  /\ UNCHANGED <<activeDbName, userDbNames, pendingActions, dbError, uiVars, lsActiveDbName,
                 hasLaunchedBefore, create, viewVars, storageOk, sync, switch, clock, nav>>
  /\ beforeunloadEffect

\* initializeApp whose `catch` block also calls setPendingActions([]).
initializeApp_failedClearsQueue ==
  /\ initApp.pc = "load"
  /\ ~CanLoad(initApp.db)
  /\ dbError' = TRUE
  /\ events' = <<>>
  /\ customTags' = <<>>
  /\ pendingActions' = <<>>
  /\ dbStatus' = "loadFailed"
  /\ isLoading' = FALSE
  /\ initApp' = [initApp EXCEPT !.pc = "done"]
  /\ saveTimer' = FALSE
  /\ lastOp' = "initializeApp_failed"
  /\ UNCHANGED <<activeDbName, userDbNames, stepTemplates, stepSetTemplates, notification,
                 isDbManagerOpen, confirmDiscardChanges, dbToDelete, envVars, create, viewVars,
                 sync, switch, clock, nav>>
  /\ beforeunloadEffect

\* `await loadData(activeDb)` rejected.
initializeApp_failed ==
  /\ initApp.pc = "load"
  /\ ~CanLoad(initApp.db)
  /\ \E rec \in FailedLoadRecords(initApp.db) : idb' = [idb EXCEPT ![initApp.db] = rec]
  /\ dbError' = TRUE
  /\ events' = <<>>
  /\ customTags' = <<>>
  /\ dbStatus' = "loadFailed"
  /\ isLoading' = FALSE
  /\ initApp' = [initApp EXCEPT !.pc = "done"]
  /\ saveTimer' = SaveArmed(pendingActions, FALSE, activeDbName)
  /\ lastOp' = "initializeApp_failed"
  /\ UNCHANGED <<activeDbName, userDbNames, stepTemplates, stepSetTemplates, pendingActions,
                 notification, isDbManagerOpen, confirmDiscardChanges, dbToDelete,
                 lsActiveDbName, hasLaunchedBefore, storageOk, create, viewVars, sync, switch,
                 clock, nav>>
  /\ beforeunloadEffect

(***************************************************************************)
(* View-local filters                                                      *)
(***************************************************************************)
ViewStep(op) ==
  /\ lastOp' = op
  /\ UNCHANGED <<activeDbName, userDbNames, snapshotVars, isLoading, pendingActions, dbError,
                 uiVars, envVars, create, initApp, sync, switch, saveTimer, clock, nav>>
  /\ beforeunloadEffect

handleStatusFilterChange(status) ==
  /\ status # activeFilters.status
  /\ activeFilters' = [activeFilters EXCEPT !.status = status]
  /\ UNCHANGED searchQuery
  /\ ViewStep("handleStatusFilterChange")

handleTagFilterChange(tag) ==
  /\ activeFilters' = [activeFilters EXCEPT !.tags =
                         IF Includes(@, tag) THEN FilterTags(@, {tag}) ELSE Append(@, tag)]
  /\ UNCHANGED searchQuery
  /\ ViewStep("handleTagFilterChange")

handleResetTagFilters ==
  /\ activeFilters.tags # <<>>
  /\ activeFilters' = [activeFilters EXCEPT !.tags = <<>>]
  /\ UNCHANGED searchQuery
  /\ ViewStep("handleResetTagFilters")

\* Header onSearchChange={setSearchQuery}
onSearchChange(query) ==
  /\ query # searchQuery
  /\ searchQuery' = query
  /\ UNCHANGED activeFilters
  /\ ViewStep("onSearchChange")

(***************************************************************************)
(* Mutation handlers                                                       *)
(***************************************************************************)
\* The tags handleAddTag creates for an event: those the global list lacks.
NewTagsToCreate(tgs) == SelectSeq(tgs, LAMBDA t : ~Includes(customTags, t))
AddTagActions(tgs) == [i \in 1..Len(tgs) |-> AddTagAction(tgs[i])]

\* Common tail of a mutation handler: the optimistic update of the snapshot and,
\* when the handler cannot write now, the new queue.
CommitMutation(op, newEvents, newTags, newQueue, newIdb) ==
  /\ clock <= MaxClock
  /\ clock' = clock + 1
  /\ events' = newEvents
  /\ customTags' = newTags
  /\ pendingActions' = IF CannotWriteNow THEN newQueue ELSE pendingActions
  /\ Len(pendingActions') <= (IF Len(pendingActions) > MaxQueue THEN Len(pendingActions)
                              ELSE MaxQueue)
  /\ idb' = IF CannotWriteNow THEN idb ELSE newIdb
  /\ saveTimer' = SaveArmed(pendingActions', isLoading, activeDbName)
  /\ lastOp' = op
  /\ UNCHANGED <<activeDbName, userDbNames, stepTemplates, stepSetTemplates, isLoading, dbError,
                 uiVars, lsActiveDbName, hasLaunchedBefore, create, storageOk, initApp, sync, switch, nav>>
  /\ beforeunloadEffect

\* Fire-and-forget saveDataInStoreByKey / deleteDataFromStoreByKey on the
\* originalImages store of the active database (direct path); a rejected
\* promise is not handled.
DirectImageWrite(img, id) ==
  IF ~storageOk \/ activeDbName \notin IdbNames \/ img = "none" THEN idb
  ELSE [idb EXCEPT ![activeDbName] =
          [Opened(@) EXCEPT !.originalImages =
             IF img = "file" THEN @ \cup {id} ELSE @ \ {id}]]

handleAddTag(tag) ==
  /\ ~Includes(customTags, tag)
  /\ CommitMutation("handleAddTag", events, Append(customTags, tag),
                    Append(pendingActions, AddTagAction(tag)), idb)
  /\ UNCHANGED viewVars

handleAddEvent(tgs, img) ==
  /\ LET newEvent == Ev(clock, "t0", <<>>, tgs, IF img = "file" THEN "url" ELSE "none",
                        img = "file")
         created == NewTagsToCreate(tgs)
     IN CommitMutation("handleAddEvent", <<newEvent>> \o events, customTags \o created,
                       pendingActions \o AddTagActions(created)
                         \o <<AddEventAction(newEvent, img)>>,
                       DirectImageWrite(img, clock))
  /\ UNCHANGED viewVars

NoEvent == [id |-> -1]

\* handleUpdateEvent that appends its UPDATE_EVENT action without removing the
\* one already queued for the same event.
handleUpdateEventStacks(updatedEvent, originalImage, eventToEdit) ==
  LET editUrl == IF eventToEdit = NoEvent THEN "none" ELSE eventToEdit.imageUrl
      editOrig == IF eventToEdit = NoEvent THEN FALSE ELSE eventToEdit.hasOriginalImage
      isImageChanged == originalImage # "none" \/ updatedEvent.imageUrl # editUrl
      finalEvent == [updatedEvent EXCEPT !.hasOriginalImage =
                       IF isImageChanged THEN originalImage = "file" ELSE editOrig]
      created == NewTagsToCreate(finalEvent.tags)
  IN /\ CommitMutation("handleUpdateEvent",
                       [i \in 1..Len(events) |->
                          IF events[i].id = finalEvent.id THEN finalEvent ELSE events[i]],
                       customTags \o created,
                       Append(pendingActions \o AddTagActions(created),
                              UpdateEventAction(finalEvent, originalImage)),
                       DirectImageWrite(originalImage, finalEvent.id))
     /\ UNCHANGED viewVars

\* handleUpdateEvent(updatedEvent, originalImage), with the eventToEdit its
\* closure holds (NoEvent when the edit modal is closed).
handleUpdateEvent(updatedEvent, originalImage, eventToEdit) ==
  LET editUrl == IF eventToEdit = NoEvent THEN "none" ELSE eventToEdit.imageUrl
      editOrig == IF eventToEdit = NoEvent THEN FALSE ELSE eventToEdit.hasOriginalImage
      isImageChanged == originalImage # "none" \/ updatedEvent.imageUrl # editUrl
      finalEvent == [updatedEvent EXCEPT !.hasOriginalImage =
                       IF isImageChanged THEN originalImage = "file" ELSE editOrig]
      created == NewTagsToCreate(finalEvent.tags)
      kept == SelectSeq(pendingActions \o AddTagActions(created),
                        LAMBDA a : ~(a.type = "UPDATE_EVENT" /\ a.event.id = finalEvent.id))
  IN /\ CommitMutation("handleUpdateEvent",
                       [i \in 1..Len(events) |->
                          IF events[i].id = finalEvent.id THEN finalEvent ELSE events[i]],
                       customTags \o created,
                       Append(kept, UpdateEventAction(finalEvent, originalImage)),
                       DirectImageWrite(originalImage, finalEvent.id))
     /\ UNCHANGED viewVars
   
handleUpdateEventSteps(eventId, newSteps) ==
  /\ CommitMutation("handleUpdateEventSteps",
                    [i \in 1..Len(events) |->
                       IF events[i].id = eventId THEN [events[i] EXCEPT !.steps = newSteps]
                       ELSE events[i]],
                    customTags,
                    Append(SelectSeq(pendingActions,
                                     LAMBDA a : ~(a.type = "UPDATE_EVENT_STEPS" /\ a.eventId = eventId)),
                           UpdateStepsAction(eventId, newSteps)),
                    idb)
  /\ UNCHANGED viewVars

handleDeleteTags(tagsToDelete) ==
  /\ CommitMutation("handleDeleteTags", StripTags(events, tagsToDelete),
                    FilterTags(customTags, tagsToDelete),
                    Append(pendingActions, DeleteTagsAction(tagsToDelete)), idb)
  /\ activeFilters' = [activeFilters EXCEPT !.tags = FilterTags(@, tagsToDelete)]
  /\ UNCHANGED searchQuery

handleRenameTag(oldTag, newTag) ==
  /\ ~(newTag = "" \/ (Includes(customTags, newTag) /\ newTag # oldTag))
  /\ CommitMutation("handleRenameTag", RenameTags(events, oldTag, newTag),
                    RenameIn(customTags, oldTag, newTag),
                    Append(pendingActions, RenameTagAction(oldTag, newTag)), idb)
  /\ activeFilters' = [activeFilters EXCEPT !.tags = RenameIn(@, oldTag, newTag)]
  /\ UNCHANGED searchQuery

handleReorderTags(reorderedTags) ==
  /\ CommitMutation("handleReorderTags", events, reorderedTags,
                    Append(pendingActions, ReorderTagsAction(reorderedTags)), idb)
  /\ UNCHANGED viewVars

\* handleDeleteEvent that puts its DELETE_EVENT action at the head of the queue.
handleDeleteEventQueuesFirst(eventId) ==
  /\ CommitMutation("handleDeleteEvent", SelectSeq(events, LAMBDA e : e.id # eventId),
                    customTags, <<DeleteEventAction(eventId)>> \o pendingActions,
                    DirectImageWrite("remove", eventId))
  /\ UNCHANGED viewVars

handleDeleteEvent(eventId) ==
  /\ CommitMutation("handleDeleteEvent", SelectSeq(events, LAMBDA e : e.id # eventId),
                    customTags, Append(pendingActions, DeleteEventAction(eventId)),
                    DirectImageWrite("remove", eventId))
  /\ UNCHANGED viewVars

RECURSIVE DirectImageDeletes(_, _)
DirectImageDeletes(db, ids) ==
  IF ids = <<>> THEN db
  ELSE DirectImageDeletes([db EXCEPT !.originalImages = @ \ {Head(ids)}], Tail(ids))

\* executeDeleteSelection with selectedEventIds = the ids of idsToDelete.
\* executeDeleteSelection that appends its DELETE_EVENT actions to the queue
\* as it is, without filterPendingActions.
executeDeleteSelectionKeepsQueue(idsToDelete) ==
  LET S == Range(idsToDelete)
      deleteActions == [i \in 1..Len(idsToDelete) |-> DeleteEventAction(idsToDelete[i])]
  IN /\ CommitMutation("executeDeleteSelection",
                       SelectSeq(events, LAMBDA e : e.id \notin S), customTags,
                       pendingActions \o deleteActions,
                       IF storageOk /\ activeDbName \in IdbNames
                       THEN [idb EXCEPT ![activeDbName] =
                               DirectImageDeletes(Opened(@), idsToDelete)]
                       ELSE idb)
     /\ UNCHANGED viewVars

executeDeleteSelection(idsToDelete) ==
  LET S == Range(idsToDelete)
      filterPendingActions(actions) ==
        SelectSeq(actions, LAMBDA a :
          CASE a.type = "DELETE_EVENT" -> a.eventId \notin S
            [] a.type \in {"ADD_EVENT", "UPDATE_EVENT"} -> a.event.id \notin S
            [] a.type = "UPDATE_EVENT_STEPS" -> a.eventId \notin S
            [] OTHER -> TRUE)
      deleteActions == [i \in 1..Len(idsToDelete) |-> DeleteEventAction(idsToDelete[i])]
  IN /\ CommitMutation("executeDeleteSelection",
                       SelectSeq(events, LAMBDA e : e.id \notin S), customTags,
                       filterPendingActions(pendingActions) \o deleteActions,
                       IF storageOk /\ activeDbName \in IdbNames
                       THEN [idb EXCEPT ![activeDbName] =
                               DirectImageDeletes(Opened(@), idsToDelete)]
                       ELSE idb)
     /\ UNCHANGED viewVars
   
\* handleUpdateSelectionTags with updates = [{eventId, newTags}] for the ids of
\* `ids`, all given the tag list newTags.
handleUpdateSelectionTags(ids, newTags) ==
  LET S == Range(ids) \cap Ids(events)
      updated(e) == [e EXCEPT !.tags = newTags]
      inMemory(id) == events[CHOOSE i \in 1..Len(events) : events[i].id = id]
      updateActions == [i \in 1..Len(ids) |-> UpdateEventAction(updated(inMemory(ids[i])), "none")]
  IN /\ Range(ids) \subseteq Ids(events)
     /\ CommitMutation("handleUpdateSelectionTags",
                       [i \in 1..Len(events) |->
                          IF events[i].id \in S THEN updated(events[i]) ELSE events[i]],
                       customTags,
                       SelectSeq(pendingActions,
                                 LAMBDA a : ~(a.type = "UPDATE_EVENT" /\ a.event.id \in S))
                         \o updateActions,
                       idb)
     /\ UNCHANGED viewVars
   
\* StepsEditorPanel onTemplatesChange={setStepTemplates}
onTemplatesChange(templates) ==
  /\ clock <= MaxClock
  /\ clock' = clock + 1
  /\ stepTemplates' = templates
  /\ saveTimer' = SaveArmed(pendingActions, isLoading, activeDbName)
  /\ lastOp' = "onTemplatesChange"
  /\ UNCHANGED <<activeDbName, userDbNames, events, customTags, stepSetTemplates, isLoading,
                 pendingActions, dbError, uiVars, envVars, create, viewVars, initApp, sync, switch, nav>>
  /\ beforeunloadEffect

\* StepsEditorPanel onStepSetTemplatesChange={setStepSetTemplates}
onStepSetTemplatesChange(sets) ==
  /\ clock <= MaxClock
  /\ clock' = clock + 1
  /\ stepSetTemplates' = sets
  /\ saveTimer' = SaveArmed(pendingActions, isLoading, activeDbName)
  /\ lastOp' = "onStepSetTemplatesChange"
  /\ UNCHANGED <<activeDbName, userDbNames, events, customTags, stepTemplates, isLoading,
                 pendingActions, dbError, uiVars, envVars, create, viewVars, initApp, sync, switch, nav>>
  /\ beforeunloadEffect

(***************************************************************************)
(* Snapshot import (executeImport)                                         *)
(***************************************************************************)
\* A name-preserving union `[...new Set([...a, ...b])]`: first occurrences, in order.
RECURSIVE Dedup(_)
Dedup(s) ==
  IF s = <<>> THEN <<>>
  ELSE LET r == Dedup(SubSeq(s, 1, Len(s) - 1))
       IN IF Includes(r, s[Len(s)]) THEN r ELSE Append(r, s[Len(s)])

\* The imported document: one event carrying tag t, and the tag list <<t>>.
ImportDoc(t) ==
  [events |-> <<Ev(DemoId, "imported", <<>>, <<t>>, "none", FALSE)>>, tags |-> <<t>>,
   stepTemplates |-> <<>>, stepSetTemplates |-> <<>>]

\* The document handleExportData writes: the snapshot in memory in volatile or
\* degraded mode, the stored collections of the active database otherwise.
handleExportData ==
  IF isTempStorageMode \/ dbError \/ activeDbName \notin IdbNames
  THEN Snapshot(events, customTags, stepTemplates, stepSetTemplates)
  ELSE Snapshot(SeqOfSet(idb[activeDbName].events), idb[activeDbName].tags,
                SeqOfNats(idb[activeDbName].stepTemplates),
                SeqOfNats(idb[activeDbName].stepSetTemplates))

\* An export of the freshly seeded default database, kept as a file.
TutorialExport == Snapshot(<<tutorialEvent>>, <<TutorialTag>>, <<>>, <<>>)

\* A file with two events, one of them carrying a new tag.
TwoEventDoc ==
  Snapshot(<<Ev(1, "t0", <<>>, <<>>, "none", FALSE), Ev(2, "t0", <<TRUE>>, <<"B">>, "none", FALSE)>>,
           <<"B", TutorialTag>>, <<>>, <<>>)

\* An import that keeps the ids of the document.
ImportedEventsKeepIds(docEvents, now) == docEvents

\* iEvents.map(event => ({...event, id: generateNewId('event'), ...})): the i-th
\* event of the document gets the i-th id generated at time `now`.
ImportedEvents(docEvents, now) ==
  [i \in 1..Len(docEvents) |-> [docEvents[i] EXCEPT !.id = now + i - 1]]

\* executeImport; ids are regenerated.
executeImport(doc) ==
  /\ clock <= MaxClock
  /\ activeDbName # NoDb
  /\ ~(activeDbName = DEMO_DB_NAME)
  /\ LET newEvents == ImportedEvents(doc.events, clock)
         mergedEvents == events \o newEvents
         mergedTags == Dedup(customTags \o doc.tags)
         mergedStepTemplates == stepTemplates \o doc.stepTemplates
         mergedStepSetTemplates == stepSetTemplates \o doc.stepSetTemplates
         adopt == /\ events' = mergedEvents
                  /\ customTags' = mergedTags
                  /\ stepTemplates' = mergedStepTemplates
                  /\ stepSetTemplates' = mergedStepSetTemplates
                  /\ notification' = "importDone"
                  /\ saveTimer' = SaveArmed(pendingActions, isLoading, activeDbName)
     IN /\ clock' = clock + Len(doc.events)
        /\ IF isTempStorageMode \/ dbError
           THEN /\ adopt
                /\ lastOp' = "executeImport_temp"
                /\ UNCHANGED idb
           ELSE \* insertDataInStore x3 and saveTagsInStore, each its own transaction
                \E ok \in WriteOutcomes :
                  /\ idb' = [idb EXCEPT ![activeDbName] =
                       [(IF SomeOk(ok) THEN Opened(@) ELSE @) EXCEPT
                          !.events = IF ok.events
                                     THEN { e \in @ : e.id \notin Ids(newEvents) } \cup Range(newEvents)
                                     ELSE @,
                          !.stepTemplates = IF ok.stepTemplates THEN @ \cup Range(doc.stepTemplates) ELSE @,
                          !.stepSetTemplates = IF ok.stepSetTemplates THEN @ \cup Range(doc.stepSetTemplates) ELSE @,
                          !.tags = IF ok.tags THEN mergedTags ELSE @]]
                  /\ IF ok = AllOk
                     THEN adopt /\ lastOp' = "executeImport_saved"
                     ELSE /\ notification' = "importFailed"
                          /\ lastOp' = "executeImport_failed"
                          /\ UNCHANGED <<snapshotVars, saveTimer>>
  /\ UNCHANGED <<activeDbName, userDbNames, isLoading, pendingActions, dbError, dbStatus,
                 isDbManagerOpen, confirmDiscardChanges, dbToDelete, lsActiveDbName,
                 hasLaunchedBefore, create, viewVars, storageOk, initApp, sync, switch, nav>>
  /\ beforeunloadEffect

(***************************************************************************)
(* Sync engine (the debounced performSync effect)                          *)
(***************************************************************************)
\* The effect's guard: a timer is pending exactly when this holds.
SyncGuard == ~isLoading /\ ~isTempStorageMode /\ ~dbError /\ pendingActions # <<>>

\* The timer fires: performSync runs up to its `await Promise.all([...])`. With
\* the demo database active nothing is awaited and the flush completes at once.
performSync_start ==
  /\ SyncGuard
  /\ sync.pc = "idle"
  /\ IF activeDbName = DEMO_DB_NAME
     THEN LET p == applyPendingActions(events, customTags, pendingActions)
          IN /\ events' = p.processedEvents
             /\ customTags' = p.processedTags
             /\ pendingActions' = <<>>
             /\ dbStatus' = "syncDone"
             /\ lastOp' = "performSync_done"
             /\ UNCHANGED sync
     ELSE /\ sync' = [pc |-> "writing", db |-> activeDbName, events |-> events,
                      tags |-> customTags, actions |-> pendingActions]
          /\ dbStatus' = "syncing"
          /\ lastOp' = "performSync_start"
          /\ UNCHANGED <<events, customTags, pendingActions>>
  /\ saveTimer' = SaveArmed(pendingActions', isLoading, activeDbName)
  /\ UNCHANGED <<activeDbName, userDbNames, stepTemplates, stepSetTemplates, isLoading, dbError,
                 notification, isDbManagerOpen, confirmDiscardChanges, dbToDelete, envVars, create, viewVars,
                 initApp, switch, clock, nav>>
  /\ beforeunloadEffect

\* FlushWrites without the saveTagsInStore call: the tag list is never written.
FlushWritesNoTags(rec, p, actions, okEvents, okTags, okAt) ==
  [(IF okEvents \/ okAt # {} THEN Opened(rec) ELSE rec) EXCEPT
     !.events = IF okEvents THEN PutAllById(p.processedEvents) ELSE @,
     !.originalImages = ImageWrites(@, actions, 1, okAt)]

\* The database record after the writes of one flush: replace-all events,
\* the tag list and the image side writes, each committed or not.
FlushWrites(rec, p, actions, okEvents, okTags, okAt) ==
  [(IF okEvents \/ okTags \/ okAt # {} THEN Opened(rec) ELSE rec) EXCEPT
     !.events = IF okEvents THEN PutAllById(p.processedEvents) ELSE @,
     !.tags = IF okTags THEN p.processedTags ELSE @,
     !.originalImages = ImageWrites(@, actions, 1, okAt)]

\* Every promise of the flush resolved: the `try` block runs to its end.
performSync_done ==
  /\ sync.pc = "writing"
  /\ storageOk
  /\ LET p == applyPendingActions(sync.events, sync.tags, sync.actions)
     IN /\ idb' = [idb EXCEPT ![sync.db] =
                     FlushWrites(@, p, sync.actions, TRUE, TRUE, ImagePositions(sync.actions))]
        /\ events' = p.processedEvents
        /\ customTags' = p.processedTags
  /\ pendingActions' = <<>>
  /\ dbError' = FALSE
  /\ dbStatus' = "syncDone"
  /\ sync' = IdleSync
  /\ saveTimer' = SaveArmed(<<>>, isLoading, activeDbName)
  /\ lastOp' = "performSync_done"
  /\ UNCHANGED <<activeDbName, userDbNames, stepTemplates, stepSetTemplates, isLoading,
                 notification, isDbManagerOpen, confirmDiscardChanges, dbToDelete,
                 lsActiveDbName, hasLaunchedBefore, create, viewVars, storageOk, initApp, switch, clock, nav>>
  /\ beforeunloadEffect

\* performSync whose `catch` block also calls setPendingActions([]).
performSync_failedClearsQueue ==
  /\ sync.pc = "writing"
  /\ ~storageOk
  /\ pendingActions' = <<>>
  /\ dbError' = TRUE
  /\ dbStatus' = "syncFailed"
  /\ sync' = IdleSync
  /\ saveTimer' = SaveArmed(<<>>, isLoading, activeDbName)
  /\ lastOp' = "performSync_failed"
  /\ UNCHANGED <<activeDbName, userDbNames, snapshotVars, isLoading, idb,
                 notification, isDbManagerOpen, confirmDiscardChanges, dbToDelete,
                 lsActiveDbName, hasLaunchedBefore, create, viewVars, storageOk, initApp, switch, clock, nav>>
  /\ beforeunloadEffect

\* Some promise of the flush rejected: the `catch` block.
performSync_failed ==
  /\ sync.pc = "writing"
  /\ ~storageOk
  /\ \E okEvents \in BOOLEAN, okTags \in BOOLEAN, okAt \in SUBSET ImagePositions(sync.actions) :
       /\ ~(okEvents /\ okTags /\ okAt = ImagePositions(sync.actions))
       /\ idb' = [idb EXCEPT ![sync.db] =
                    FlushWrites(@, applyPendingActions(sync.events, sync.tags, sync.actions),
                                sync.actions, okEvents, okTags, okAt)]
  /\ dbError' = TRUE
  /\ dbStatus' = "syncFailed"
  /\ sync' = IdleSync
  /\ saveTimer' = SaveArmed(pendingActions, isLoading, activeDbName)
  /\ lastOp' = "performSync_failed"
  /\ UNCHANGED <<activeDbName, userDbNames, snapshotVars, isLoading, pendingActions,
                 notification, isDbManagerOpen, confirmDiscardChanges, dbToDelete,
                 lsActiveDbName, hasLaunchedBefore, create, viewVars, storageOk, initApp, switch, clock, nav>>
  /\ beforeunloadEffect

(***************************************************************************)
(* Debounced saveData effect                                               *)
(***************************************************************************)
\* The timer fires: saveData writes the whole in-memory snapshot to the active
\* database; a failure is logged and nothing else happens.
saveData ==
  /\ saveTimer
  /\ \E ok \in WriteOutcomes :
       idb' = [idb EXCEPT ![activeDbName] =
                 WriteSnapshot(@, events, customTags, stepTemplates, stepSetTemplates, ok)]
  /\ saveTimer' = FALSE
  /\ lastOp' = "saveData"
  /\ UNCHANGED <<activeDbName, userDbNames, snapshotVars, isLoading, pendingActions, dbError,
                 uiVars, lsActiveDbName, hasLaunchedBefore, create, viewVars, storageOk, initApp, sync, switch,
                 clock, nav>>
  /\ beforeunloadEffect

(***************************************************************************)
(* Database switch / merge controller                                      *)
(***************************************************************************)
\* SettingsModal onOpenDbManager: rediscover, then open the manager.
onOpenDbManager ==
  /\ nav < MaxNav
  /\ nav' = nav + 1
  /\ ~isDbManagerOpen
  /\ userDbNames' = discoverDatabases
  /\ isDbManagerOpen' = TRUE
  /\ lastOp' = "onOpenDbManager"
  /\ UNCHANGED <<activeDbName, snapshotVars, isLoading, pendingActions, dbError, dbStatus,
                 notification, confirmDiscardChanges, dbToDelete, envVars, create, viewVars, initApp, sync,
                 switch, saveTimer, clock>>
  /\ beforeunloadEffect

\* A switch that leaves the view-local filters as they are.
ResetFiltersSkipped == UNCHANGED viewVars

\* setActiveFilters({ status: 'all', tags: [] }); setSearchQuery('')
ResetFilters ==
  /\ activeFilters' = NoFilters
  /\ searchQuery' = ""

\* Adopting the demo database without loading its data set.
AdoptDemoKeepsSnapshot ==
  /\ activeDbName' = DEMO_DB_NAME
  /\ lsActiveDbName' = DEMO_DB_NAME
  /\ dbStatus' = "switched"
  /\ UNCHANGED snapshotVars

\* Adopting the demo data set (loadData(DEMO_DB_NAME) resolves without I/O).
AdoptDemo ==
  /\ events' = demoEvents
  /\ customTags' = demoTags
  /\ stepTemplates' = demoStepTemplates
  /\ stepSetTemplates' = demoStepSetTemplates
  /\ activeDbName' = DEMO_DB_NAME
  /\ lsActiveDbName' = DEMO_DB_NAME
  /\ dbStatus' = "switched"

\* A switch to the active database that also empties the queue.
SameDbSwitchClearsQueue(deleting, newDbNames) ==
  /\ isDbManagerOpen' = FALSE
  /\ pendingActions' = <<>>
  /\ lastOp' = "handleSwitchDb_same"
  /\ switch' = Settled(deleting, newDbNames)
  /\ UNCHANGED <<activeDbName, snapshotVars, dbError, dbStatus,
                 confirmDiscardChanges, lsActiveDbName, saveTimer, viewVars>>

\* handleSwitchDb(newDbName) with newDbName === activeDbName: close the manager.
SameDbSwitch(deleting, newDbNames) ==
  /\ isDbManagerOpen' = FALSE
  /\ lastOp' = "handleSwitchDb_same"
  /\ switch' = Settled(deleting, newDbNames)
  /\ UNCHANGED <<activeDbName, snapshotVars, pendingActions, dbError, dbStatus,
                 confirmDiscardChanges, lsActiveDbName, saveTimer, viewVars>>

\* handleSwitchDb(newDbName) up to its first await on storage. `deleting` is the
\* database handleDeleteDb removes once the switch has settled (NoDb: none).
SwitchTo(newDbName, deleting, newDbNames) ==
  LET cameFromPassiveTemp == dbError
      hasUnsyncedChanges == pendingActions # <<>>
  IN
  IF newDbName = activeDbName
  THEN SameDbSwitch(deleting, newDbNames)
  ELSE IF newDbName \in {DEMO_DB_NAME, TEMP_STORAGE_DB_NAME}
          /\ cameFromPassiveTemp /\ hasUnsyncedChanges
  THEN /\ confirmDiscardChanges' = newDbName
       /\ isDbManagerOpen' = FALSE
       /\ lastOp' = "handleSwitchDb_confirm"
       /\ switch' = Settled(deleting, newDbNames)
       /\ UNCHANGED <<activeDbName, snapshotVars, pendingActions, dbError, dbStatus,
                      lsActiveDbName, saveTimer, viewVars>>
  ELSE IF newDbName = TEMP_STORAGE_DB_NAME
  THEN /\ activeDbName' = TEMP_STORAGE_DB_NAME
       /\ lsActiveDbName' = NoDb
       /\ events' = <<>> /\ customTags' = <<>>
       /\ stepTemplates' = <<>> /\ stepSetTemplates' = <<>>
       /\ pendingActions' = <<>>
       /\ dbError' = FALSE
       /\ dbStatus' = "tempMode"
       /\ isDbManagerOpen' = FALSE
       /\ ResetFilters
       /\ saveTimer' = FALSE
       /\ lastOp' = "handleSwitchDb_temp"
       /\ switch' = Settled(deleting, newDbNames)
       /\ UNCHANGED confirmDiscardChanges
  ELSE IF newDbName = DEMO_DB_NAME
  THEN /\ AdoptDemo
       /\ dbError' = FALSE
       /\ pendingActions' = <<>>
       /\ ResetFilters
       /\ isDbManagerOpen' = FALSE
       /\ saveTimer' = FALSE
       /\ lastOp' = "handleSwitchDb_loaded"
       /\ switch' = Settled(deleting, newDbNames)
       /\ UNCHANGED confirmDiscardChanges
  ELSE /\ switch' = [pc |-> "loading", target |-> newDbName,
                     merge |-> cameFromPassiveTemp /\ hasUnsyncedChanges,
                     actions |-> pendingActions, deleting |-> deleting,
                     newDbNames |-> newDbNames]
       /\ dbStatus' = IF cameFromPassiveTemp /\ hasUnsyncedChanges THEN "merging" ELSE "connecting"
       /\ isDbManagerOpen' = FALSE
       /\ lastOp' = "handleSwitchDb_start"
       /\ UNCHANGED <<activeDbName, snapshotVars, pendingActions, dbError,
                      confirmDiscardChanges, lsActiveDbName, saveTimer, viewVars>>

\* The user picks a database in the database manager.
handleSwitchDb(newDbName) ==
  /\ nav < MaxNav
  /\ nav' = nav + 1
  /\ isDbManagerOpen
  /\ switch.pc = "idle"
  /\ newDbName \in Range(userDbNames) \cup {DEMO_DB_NAME, TEMP_STORAGE_DB_NAME}
  /\ SwitchTo(newDbName, NoDb, <<>>)
  /\ UNCHANGED <<userDbNames, isLoading, notification, dbToDelete, idb, hasLaunchedBefore, create,
                 storageOk, initApp, sync, clock>>
  /\ beforeunloadEffect

\* The awaits of handleSwitchDb resolved: load (and, from the degraded state
\* with a queue, fold and persist), then adopt.
handleSwitchDb_done ==
  /\ switch.pc = "loading"
  /\ storageOk
  /\ LET t == switch.target
         data == LoadedSnapshot(t)
         p == applyPendingActions(data.events, data.tags, switch.actions)
         loaded == RecordAfterLoad(t)
         saved == WriteSnapshot(loaded, p.processedEvents, p.processedTags,
                                data.stepTemplates, data.stepSetTemplates, AllOk)
     IN /\ events' = IF switch.merge THEN p.processedEvents ELSE data.events
        /\ customTags' = IF switch.merge THEN p.processedTags ELSE data.tags
        /\ stepTemplates' = data.stepTemplates
        /\ stepSetTemplates' = data.stepSetTemplates
        /\ dbStatus' = IF switch.merge THEN "merged" ELSE "switched"
        /\ activeDbName' = t
        /\ lsActiveDbName' = t
        /\ idb' = [idb EXCEPT ![t] = IF switch.merge THEN saved ELSE loaded]
        /\ saveTimer' = SaveArmed(<<>>, isLoading, t)
  /\ dbError' = FALSE
  /\ pendingActions' = <<>>
  /\ ResetFilters
  /\ switch' = Settled(switch.deleting, switch.newDbNames)
  /\ lastOp' = "handleSwitchDb_done"
  /\ UNCHANGED <<userDbNames, notification, isLoading, isDbManagerOpen, confirmDiscardChanges, dbToDelete,
                 hasLaunchedBefore, create, storageOk, initApp, sync, clock, nav>>
  /\ beforeunloadEffect

\* handleSwitchDb whose `catch` block also calls setPendingActions([]).
handleSwitchDb_failedClearsQueue ==
  /\ switch.pc = "loading"
  /\ ~storageOk
  /\ pendingActions' = <<>>
  /\ notification' = "switchFailed"
  /\ dbError' = TRUE
  /\ dbStatus' = "none"
  /\ isDbManagerOpen' = TRUE
  /\ switch' = Settled(switch.deleting, switch.newDbNames)
  /\ saveTimer' = SaveArmed(<<>>, isLoading, activeDbName)
  /\ lastOp' = "handleSwitchDb_failed"
  /\ UNCHANGED <<userDbNames, activeDbName, snapshotVars, isLoading, confirmDiscardChanges,
                 dbToDelete, envVars, create, viewVars, initApp, sync, clock, nav>>
  /\ beforeunloadEffect

\* loadData or saveDataToDb rejected: the `catch` block.
handleSwitchDb_failed ==
  /\ switch.pc = "loading"
  /\ ~storageOk
  /\ \E loadOk \in {FALSE, switch.merge}, ok \in Outcomes \ {AllOk} :
       LET t == switch.target
           data == LoadedSnapshot(t)
           p == applyPendingActions(data.events, data.tags, switch.actions)
           after == IF loadOk
                    THEN {WriteSnapshot(RecordAfterLoad(t), p.processedEvents, p.processedTags,
                                        data.stepTemplates, data.stepSetTemplates, ok)}
                    ELSE FailedLoadRecords(t)
       IN \E rec \in after : idb' = [idb EXCEPT ![t] = rec]
  /\ notification' = "switchFailed"
  /\ dbError' = TRUE
  /\ dbStatus' = "none"
  /\ isDbManagerOpen' = TRUE
  /\ switch' = Settled(switch.deleting, switch.newDbNames)
  /\ lastOp' = "handleSwitchDb_failed"
  /\ UNCHANGED <<userDbNames, activeDbName, snapshotVars, isLoading, pendingActions, confirmDiscardChanges,
                 dbToDelete, lsActiveDbName, hasLaunchedBefore, create, viewVars, storageOk, initApp, sync,
                 saveTimer, clock, nav>>
  /\ beforeunloadEffect

\* The user confirms the discard dialog: executeDiscardAndSwitch(confirmDiscardChanges).
executeDiscardAndSwitch ==
  /\ nav < MaxNav
  /\ nav' = nav + 1
  /\ confirmDiscardChanges # NoDb
  /\ confirmDiscardChanges' = NoDb
  /\ pendingActions' = <<>>
  /\ dbError' = FALSE
  /\ ResetFilters
  /\ IF confirmDiscardChanges = TEMP_STORAGE_DB_NAME
     THEN /\ activeDbName' = TEMP_STORAGE_DB_NAME
          /\ events' = <<>> /\ customTags' = <<>>
          /\ stepTemplates' = <<>> /\ stepSetTemplates' = <<>>
          /\ dbStatus' = "tempMode"
          /\ UNCHANGED lsActiveDbName
     ELSE AdoptDemo
  /\ saveTimer' = FALSE
  /\ lastOp' = "executeDiscardAndSwitch"
  /\ UNCHANGED <<userDbNames, isLoading, notification, isDbManagerOpen, dbToDelete, idb,
                 hasLaunchedBefore, create, storageOk, initApp, sync, switch, clock>>
  /\ beforeunloadEffect

\* The user dismisses the discard dialog.
cancelDiscard ==
  /\ nav < MaxNav
  /\ nav' = nav + 1
  /\ confirmDiscardChanges # NoDb
  /\ confirmDiscardChanges' = NoDb
  /\ lastOp' = "cancelDiscard"
  /\ UNCHANGED <<activeDbName, userDbNames, snapshotVars, isLoading, pendingActions, dbError,
                 dbStatus, notification, isDbManagerOpen, dbToDelete, envVars, create, viewVars, initApp, sync,
                 switch, saveTimer, clock>>
  /\ beforeunloadEffect

\* DatabaseManagerModal onDeleteDbRequest
onDeleteDbRequest(name) ==
  /\ nav < MaxNav
  /\ nav' = nav + 1
  /\ isDbManagerOpen
  /\ dbToDelete = NoDb
  /\ name \in Range(userDbNames)
  /\ dbToDelete' = name
  /\ lastOp' = "onDeleteDbRequest"
  /\ UNCHANGED <<activeDbName, userDbNames, snapshotVars, isLoading, pendingActions, dbError,
                 dbStatus, notification, isDbManagerOpen, confirmDiscardChanges, envVars, create, viewVars,
                 initApp, sync, switch, saveTimer, clock>>
  /\ beforeunloadEffect

\* The user confirms the delete dialog: handleDeleteDb.
handleDeleteDb ==
  /\ nav < MaxNav
  /\ nav' = nav + 1
  /\ dbToDelete # NoDb
  /\ switch.pc = "idle"
  /\ dbToDelete' = NoDb
  /\ LET nameToDelete == dbToDelete
         wasActive == nameToDelete = activeDbName
         newDbNames == SelectSeq(userDbNames, LAMBDA n : n # nameToDelete)
         nextDb == IF Includes(newDbNames, DEFAULT_DB_NAME) THEN DEFAULT_DB_NAME
                   ELSE IF newDbNames # <<>> THEN newDbNames[1] ELSE NoDb
     IN IF wasActive /\ nextDb # NoDb
        THEN \* `await handleSwitchDb(nextDb)`; the deletion follows when it returns
             SwitchTo(nextDb, nameToDelete, newDbNames)
        ELSE IF wasActive
        THEN \* the last database was deleted: passive temporary mode
             /\ lsActiveDbName' = NoDb
             /\ activeDbName' = TEMP_STORAGE_DB_NAME
             /\ events' = <<>> /\ customTags' = <<>>
             /\ stepTemplates' = <<>> /\ stepSetTemplates' = <<>>
             /\ pendingActions' = <<>>
             /\ dbError' = TRUE
             /\ dbStatus' = "lastDbDeleted"
             /\ saveTimer' = FALSE
             /\ lastOp' = "handleDeleteDb_last"
             /\ switch' = Settled(nameToDelete, newDbNames)
             /\ UNCHANGED <<isDbManagerOpen, confirmDiscardChanges, viewVars>>
        ELSE /\ switch' = Settled(nameToDelete, newDbNames)
             /\ lastOp' = "handleDeleteDb_other"
             /\ UNCHANGED <<activeDbName, snapshotVars, pendingActions, dbError, dbStatus,
                            isDbManagerOpen, confirmDiscardChanges, lsActiveDbName,
                            saveTimer, viewVars>>
  /\ UNCHANGED <<userDbNames, notification, idb, isLoading, hasLaunchedBefore, create, storageOk,
                 initApp, sync, clock>>
  /\ beforeunloadEffect

\* The indexedDB.deleteDatabase request of handleDeleteDb settles.
deleteDatabase_settled ==
  /\ switch.pc = "deleting"
  /\ IF storageOk
     THEN /\ idb' = [idb EXCEPT ![switch.deleting] = NoDatabase]
          /\ userDbNames' = switch.newDbNames
          /\ notification' = "dbDeleted"
     ELSE /\ notification' = "dbDeleteFailed"
          /\ UNCHANGED <<idb, userDbNames>>
  /\ switch' = IdleSwitch
  /\ lastOp' = "deleteDatabase_settled"
  /\ UNCHANGED <<activeDbName, snapshotVars, isLoading, pendingActions, dbError, dbStatus,
                 isDbManagerOpen, confirmDiscardChanges, dbToDelete, lsActiveDbName,
                 hasLaunchedBefore, create, viewVars, storageOk, initApp, sync, saveTimer, clock, nav>>
  /\ beforeunloadEffect

(***************************************************************************)
(* Creating a database                                                     *)
(***************************************************************************)
DB_PREFIX == "essenmelia-db"
\* `${DB_PREFIX}-${name}`
FullName(name) == DB_PREFIX \o "-" \o name

\* The names the user types into the create dialog (already trimmed).
NewDbNameInputs == {"", "default", "work", "demo"}

\* userDbNames.includes(fullName) || name === 'demo'
NameTaken(name, registry) == Includes(registry, FullName(name)) \/ name = "demo"

\* handleCreateNewDb up to `await initDB(fullName)`.
handleCreateNewDb(name) ==
  /\ nav < MaxNav
  /\ nav' = nav + 1
  /\ isDbManagerOpen
  /\ create.pc = "idle"
  /\ IF name = ""
     THEN /\ notification' = "nameInvalid"
          /\ lastOp' = "handleCreateNewDb_invalid"
          /\ UNCHANGED create
     ELSE IF NameTaken(name, userDbNames)
     THEN /\ notification' = "nameConflict"
          /\ lastOp' = "handleCreateNewDb_conflict"
          /\ UNCHANGED create
     ELSE /\ create' = [pc |-> "opening", fullName |-> FullName(name),
                        userDbNames |-> userDbNames]
          /\ lastOp' = "handleCreateNewDb_start"
          /\ UNCHANGED notification
  /\ UNCHANGED <<activeDbName, userDbNames, snapshotVars, isLoading, pendingActions, dbError,
                 dbStatus, isDbManagerOpen, confirmDiscardChanges, dbToDelete, envVars,
                 viewVars, initApp, sync, switch, saveTimer, clock>>
  /\ beforeunloadEffect

\* `await initDB(fullName)` resolved: the name joins the registry the closure holds.
handleCreateNewDb_done ==
  /\ create.pc = "opening"
  /\ storageOk
  /\ idb' = [idb EXCEPT ![create.fullName] = Opened(@)]
  /\ userDbNames' = Append(create.userDbNames, create.fullName)
  /\ notification' = "dbCreated"
  /\ create' = IdleCreate
  /\ lastOp' = "handleCreateNewDb_done"
  /\ UNCHANGED <<activeDbName, snapshotVars, isLoading, pendingActions, dbError, dbStatus,
                 isDbManagerOpen, confirmDiscardChanges, dbToDelete, lsActiveDbName,
                 hasLaunchedBefore, storageOk, viewVars, initApp, sync, switch, saveTimer,
                 clock, nav>>
  /\ beforeunloadEffect

\* `await initDB(fullName)` rejected.
handleCreateNewDb_failed ==
  /\ create.pc = "opening"
  /\ ~storageOk
  /\ notification' = "dbCreateFailed"
  /\ create' = IdleCreate
  /\ lastOp' = "handleCreateNewDb_failed"
  /\ UNCHANGED <<activeDbName, userDbNames, snapshotVars, isLoading, pendingActions, dbError,
                 dbStatus, isDbManagerOpen, confirmDiscardChanges, dbToDelete, idb,
                 lsActiveDbName, hasLaunchedBefore, storageOk, viewVars, initApp, sync, switch,
                 saveTimer, clock, nav>>
  /\ beforeunloadEffect

(***************************************************************************)
(* Formatting the application                                              *)
(***************************************************************************)
\* The user asks for a format in the database manager (which closes it) and
\* confirms the dialog: handleFormatApp. The deleteDatabase requests are issued
\* together and settle together.
handleFormatApp ==
  /\ nav < MaxNav
  /\ nav' = nav + 1
  /\ isDbManagerOpen
  /\ isDbManagerOpen' = FALSE
  /\ IF isTempStorageMode
     THEN /\ events' = <<>> /\ customTags' = <<>>
          /\ stepTemplates' = <<>> /\ stepSetTemplates' = <<>>
          /\ pendingActions' = <<>>
          /\ notification' = "sessionReset"
          /\ saveTimer' = FALSE
          /\ lastOp' = "handleFormatApp_temp"
          /\ UNCHANGED <<idb, lsActiveDbName, hasLaunchedBefore>>
     ELSE LET dbNamesToDelete == {DEMO_DB_NAME} \cup Range(userDbNames)
          IN IF storageOk
             THEN /\ idb' = [n \in IdbNames |->
                               IF n \in dbNamesToDelete THEN NoDatabase ELSE idb[n]]
                  /\ lsActiveDbName' = NoDb
                  /\ hasLaunchedBefore' = FALSE
                  /\ notification' = "formatDone"
                  /\ lastOp' = "handleFormatApp_done"
                  /\ UNCHANGED <<snapshotVars, pendingActions, saveTimer>>
             ELSE /\ notification' = "formatFailed"
                  /\ lastOp' = "handleFormatApp_failed"
                  /\ UNCHANGED <<snapshotVars, pendingActions, saveTimer, idb,
                                 lsActiveDbName, hasLaunchedBefore>>
  /\ UNCHANGED <<activeDbName, userDbNames, isLoading, dbError, dbStatus,
                 confirmDiscardChanges, dbToDelete, storageOk, create, viewVars, initApp,
                 sync, switch, clock>>
  /\ beforeunloadEffect

(***************************************************************************)
(* Specification                                                           *)
(***************************************************************************)
ImageInputs == {"none", "file", "remove"}

Mutation ==
  \/ \E t \in Tags : handleAddTag(t)
  \/ \E tg \in {<<>>, <<"B">>}, img \in {"none", "file"} : handleAddEvent(tg, img)
  \/ \E i \in 1..Len(events), img \in ImageInputs :
       handleUpdateEvent([events[i] EXCEPT
                            !.title = "t1",
                            !.imageUrl = IF img = "file" THEN "url"
                                         ELSE IF img = "remove" THEN "none" ELSE @],
                         img, events[i])
  \/ \E i \in 1..Len(events) :
       handleUpdateEvent([events[i] EXCEPT !.steps = <<TRUE>>], "none", NoEvent)
  \/ \E i \in 1..Len(events) : handleUpdateEventSteps(events[i].id, <<FALSE>>)
  \/ \E t \in Tags : handleDeleteTags({t})
  \/ \E o \in Range(customTags), n \in Tags \cup {""} : handleRenameTag(o, n)
  \/ Len(customTags) = 2 /\ handleReorderTags(<<customTags[2], customTags[1]>>)
  \/ \E i \in 1..Len(events) : handleDeleteEvent(events[i].id)
  \/ events # <<>> /\ executeDeleteSelection(SeqOfNats(Ids(events)))
  \/ \E i \in 1..Len(events), t \in Range(customTags) :
       handleUpdateSelectionTags(<<events[i].id>>, <<t>>)
  \/ \E t \in {<<>>, <<1>>} : t # stepTemplates /\ onTemplatesChange(t)
  \/ \E t \in {<<>>, <<1>>} : t # stepSetTemplates /\ onStepSetTemplatesChange(t)
  \/ executeImport(ImportDoc("B"))

\* The edits explored next to the database manager: one that adds an event with a
\* new tag and an original image, and one that deletes an event.
Next ==
  \/ StorageBreaks
  \/ StorageRecovers
  \/ initializeApp_discover
  \/ initializeApp_loaded
  \/ initializeApp_failed
  \/ handleAddEvent(<<"B">>, "file")
  \/ \E i \in 1..Len(events) : handleDeleteEvent(events[i].id)
  \/ performSync_start
  \/ performSync_done
  \/ performSync_failed
  \/ saveData
  \/ onOpenDbManager
  \/ \E n \in RealDbs \cup {DEMO_DB_NAME, TEMP_STORAGE_DB_NAME} : handleSwitchDb(n)
  \/ handleSwitchDb_done
  \/ handleSwitchDb_failed
  \/ executeDiscardAndSwitch
  \/ cancelDiscard
  \/ \E n \in RealDbs : onDeleteDbRequest(n)
  \/ handleDeleteDb
  \/ deleteDatabase_settled

Spec == Init /\ [][Next]_vars

\* Every edit of the catalogue against the loader, the sync engine and the
\* debounced save, with the database manager left closed.
NextEdit ==
  \/ StorageBreaks
  \/ StorageRecovers
  \/ initializeApp_discover
  \/ initializeApp_loaded
  \/ initializeApp_failed
  \/ Mutation
  \/ performSync_start
  \/ performSync_done
  \/ performSync_failed
  \/ saveData

SpecEdit == Init /\ [][NextEdit]_vars

\* The updates of an event explored next to the database manager (switches
\* between the real databases, which can fail and leave the app degraded).
UpdateEdits ==
  \/ \E i \in 1..Len(events), img \in ImageInputs :
       handleUpdateEvent([events[i] EXCEPT
                            !.title = "t1",
                            !.imageUrl = IF img = "file" THEN "url"
                                         ELSE IF img = "remove" THEN "none" ELSE @],
                         img, events[i])
  \/ \E i \in 1..Len(events) :
       handleUpdateEvent([events[i] EXCEPT !.steps = <<TRUE>>], "none", NoEvent)
  \/ \E i \in 1..Len(events), t \in Range(customTags) :
       handleUpdateSelectionTags(<<events[i].id>>, <<t>>)

NextUpdate ==
  \/ StorageBreaks
  \/ StorageRecovers
  \/ initializeApp_discover
  \/ initializeApp_loaded
  \/ initializeApp_failed
  \/ UpdateEdits
  \/ performSync_start
  \/ performSync_done
  \/ performSync_failed
  \/ saveData
  \/ onOpenDbManager
  \/ \E n \in RealDbs : handleSwitchDb(n)
  \/ handleSwitchDb_done
  \/ handleSwitchDb_failed

SpecUpdate == Init /\ [][NextUpdate]_vars

\* The view-local filters next to the switches of the database manager, with
\* the edit that adds an event.
NextView ==
  \/ StorageBreaks
  \/ StorageRecovers
  \/ initializeApp_discover
  \/ initializeApp_loaded
  \/ initializeApp_failed
  \/ handleAddEvent(<<"B">>, "none")
  \/ \E st \in {"all", "completed"} : handleStatusFilterChange(st)
  \/ Includes(customTags, "B") /\ handleTagFilterChange("B")
  \/ handleResetTagFilters
  \/ \E q \in {"", "q"} : onSearchChange(q)
  \/ performSync_start
  \/ performSync_done
  \/ performSync_failed
  \/ saveData
  \/ onOpenDbManager
  \/ \E n \in RealDbs \cup {DEMO_DB_NAME, TEMP_STORAGE_DB_NAME} : handleSwitchDb(n)
  \/ handleSwitchDb_done
  \/ handleSwitchDb_failed
  \/ executeDiscardAndSwitch
  \/ cancelDiscard

SpecView == Init /\ [][NextView]_vars

\* Import of snapshot files (a one-event file, a two-event file, an export of
\* the seeded default database, and what the app would export right now) next
\* to the loader, one edit, the sync engine and the debounced save.
ImportFiles == {ImportDoc("B"), TwoEventDoc, TutorialExport, handleExportData}

NextImport ==
  \/ StorageBreaks
  \/ StorageRecovers
  \/ initializeApp_discover
  \/ initializeApp_loaded
  \/ initializeApp_failed
  \/ \E doc \in ImportFiles : executeImport(doc)
  \/ handleAddEvent(<<>>, "none")
  \/ performSync_start
  \/ performSync_done
  \/ performSync_failed
  \/ saveData

SpecImport == Init /\ [][NextImport]_vars

\* applyPendingActions on its own: every base without duplicate ids over a small
\* universe of events, folded with every action sequence of up to MaxFold
\* actions. The base is the snapshot in memory, the sequence is the queue.
FoldEvents ==
  {Ev(1, "t0", <<>>, <<TutorialTag>>, "none", FALSE), Ev(1, "t1", <<>>, <<>>, "none", FALSE),
   Ev(2, "t0", <<>>, <<>>, "none", FALSE)}

FoldBases ==
  {<<>>} \cup { <<e>> : e \in FoldEvents }
         \cup { <<p[1], p[2]>> : p \in { q \in FoldEvents \X FoldEvents : q[1].id # q[2].id } }

FoldQueueActions ==
  { AddEventAction(e, "none") : e \in FoldEvents }
    \cup { UpdateEventAction(e, "none") : e \in FoldEvents }
    \cup { DeleteEventAction(i) : i \in {1, 2} }
    \cup { UpdateStepsAction(1, <<TRUE>>), AddTagAction("B"), DeleteTagsAction({TutorialTag}),
           RenameTagAction(TutorialTag, "B") }

FoldQueues == UNION { [1..k -> FoldQueueActions] : k \in 0..MaxFold }

InitFold ==
  /\ activeDbName = DEFAULT_DB_NAME
  /\ userDbNames = <<DEFAULT_DB_NAME>>
  /\ events \in FoldBases
  /\ customTags = <<TutorialTag>>
  /\ stepTemplates = <<>> /\ stepSetTemplates = <<>>
  /\ isLoading = FALSE
  /\ pendingActions \in FoldQueues
  /\ dbError = TRUE
  /\ dbStatus = "none" /\ notification = "none"
  /\ isDbManagerOpen = FALSE
  /\ confirmDiscardChanges = NoDb /\ dbToDelete = NoDb
  /\ idb = [n \in IdbNames |-> IF n = DEFAULT_DB_NAME THEN SeededDefault ELSE NoDatabase]
  /\ hasLaunchedBefore = TRUE
  /\ lsActiveDbName = DEFAULT_DB_NAME
  /\ storageOk = TRUE
  /\ initApp = [pc |-> "done", db |-> DEFAULT_DB_NAME]
  /\ sync = IdleSync
  /\ switch = IdleSwitch
  /\ create = IdleCreate
  /\ beforeUnloadListener = (Len(pendingActions) > 0)
  /\ saveTimer = FALSE
  /\ activeFilters = NoFilters
  /\ searchQuery = ""
  /\ clock = 3
  /\ nav = 0
  /\ lastOp = "mount"

\* The events and tags become what applyPendingActions returns for them and
\* the queue.
applyPendingActionsCall ==
  /\ LET p == applyPendingActions(events, customTags, pendingActions)
     IN /\ events' = p.processedEvents
        /\ customTags' = p.processedTags
  /\ lastOp' = "applyPendingActions"
  /\ UNCHANGED <<activeDbName, userDbNames, stepTemplates, stepSetTemplates, isLoading,
                 pendingActions, dbError, uiVars, envVars, create, viewVars, initApp, sync,
                 switch, saveTimer, clock, nav>>
  /\ beforeunloadEffect

SpecFold == InitFold /\ [][applyPendingActionsCall]_vars

\* executeDeleteSelection on its own, in degraded mode: every snapshot of
\* FoldBases with every queue of FoldQueues, and every non-empty selection of
\* the events in memory.
InitBulk ==
  /\ activeDbName = DEFAULT_DB_NAME
  /\ userDbNames = <<DEFAULT_DB_NAME>>
  /\ events \in FoldBases
  /\ customTags = <<TutorialTag>>
  /\ stepTemplates = <<>> /\ stepSetTemplates = <<>>
  /\ isLoading = FALSE
  /\ pendingActions \in FoldQueues
  /\ dbError = TRUE
  /\ dbStatus = "none" /\ notification = "none"
  /\ isDbManagerOpen = FALSE
  /\ confirmDiscardChanges = NoDb /\ dbToDelete = NoDb
  /\ idb = [n \in IdbNames |-> IF n = DEFAULT_DB_NAME THEN SeededDefault ELSE NoDatabase]
  /\ hasLaunchedBefore = TRUE
  /\ lsActiveDbName = DEFAULT_DB_NAME
  /\ storageOk = TRUE
  /\ initApp = [pc |-> "done", db |-> DEFAULT_DB_NAME]
  /\ sync = IdleSync
  /\ switch = IdleSwitch
  /\ create = IdleCreate
  /\ beforeUnloadListener = (Len(pendingActions) > 0)
  /\ saveTimer = FALSE
  /\ activeFilters = NoFilters
  /\ searchQuery = ""
  /\ clock = MaxClock
  /\ nav = 0
  /\ lastOp = "mount"

\* selectedEventIds: a non-empty set of the events shown, in some order.
Selections == { ids \in UNION { [1..k -> Ids(events)] : k \in 1..2 } :
                  \A i, j \in 1..Len(ids) : ids[i] = ids[j] => i = j }

NextBulk == \E ids \in Selections : executeDeleteSelection(ids)

SpecBulk == InitBulk /\ [][NextBulk]_vars

\* The database manager: creating, deleting, switching and formatting, next to
\* the loader and the debounced save.
NextDb ==
  \/ StorageBreaks
  \/ StorageRecovers
  \/ initializeApp_discover
  \/ initializeApp_loaded
  \/ initializeApp_failed
  \/ saveData
  \/ onOpenDbManager
  \/ \E name \in NewDbNameInputs : handleCreateNewDb(name)
  \/ handleCreateNewDb_done
  \/ handleCreateNewDb_failed
  \/ \E n \in RealDbs \cup {TEMP_STORAGE_DB_NAME} : handleSwitchDb(n)
  \/ handleSwitchDb_done
  \/ handleSwitchDb_failed
  \/ \E n \in RealDbs : onDeleteDbRequest(n)
  \/ handleDeleteDb
  \/ deleteDatabase_settled
  \/ handleFormatApp

SpecDb == Init /\ [][NextDb]_vars

\* What a former session can have left of the default database: nothing, a
\* database created but never loaded, the seeded one, the seeded one with the
\* tutorial event deleted.
DefaultStocks ==
  {NoDatabase, Opened(NoDatabase), SeededDefault, [SeededDefault EXCEPT !.events = {}]}

\* The same for the user-created database; its last stock holds one event.
UserStocks ==
  {NoDatabase, Opened(NoDatabase), SeededEmpty,
   [SeededEmpty EXCEPT !.events = {Ev(1, "t0", <<>>, <<>>, "none", FALSE)}]}

\* Startup from every stock of databases and every stored preference a former
\* session (or another tab) can leave behind.
InitStart ==
  /\ activeDbName = NoDb
  /\ userDbNames = <<>>
  /\ events = <<>> /\ customTags = <<>> /\ stepTemplates = <<>> /\ stepSetTemplates = <<>>
  /\ isLoading = TRUE
  /\ pendingActions = <<>>
  /\ dbError = FALSE
  /\ dbStatus = "none" /\ notification = "none"
  /\ isDbManagerOpen = FALSE
  /\ confirmDiscardChanges = NoDb /\ dbToDelete = NoDb
  /\ \E default \in DefaultStocks, user \in UserStocks, hasDemo \in BOOLEAN :
       idb = [n \in IdbNames |->
                IF n = DEFAULT_DB_NAME THEN default
                ELSE IF n = UserDb THEN user
                ELSE IF hasDemo THEN Opened(NoDatabase)
                ELSE NoDatabase]
  /\ hasLaunchedBefore \in BOOLEAN
  /\ lsActiveDbName \in IF hasLaunchedBefore
                         THEN {NoDb, DEFAULT_DB_NAME, UserDb, DEMO_DB_NAME}
                         ELSE {NoDb}
  /\ storageOk \in BOOLEAN
  /\ initApp = [pc |-> "discover", db |-> NoDb]
  /\ sync = IdleSync
  /\ switch = IdleSwitch
  /\ create = IdleCreate
  /\ beforeUnloadListener = FALSE
  /\ saveTimer = FALSE
  /\ activeFilters = NoFilters
  /\ searchQuery = ""
  /\ clock = 1
  /\ nav = 0
  /\ lastOp = "mount"

NextStart ==
  \/ StorageBreaks
  \/ StorageRecovers
  \/ initializeApp_discover
  \/ initializeApp_loaded
  \/ initializeApp_failed
  \/ saveData
  \/ onOpenDbManager
  \/ \E n \in RealDbs : handleSwitchDb(n)
  \/ handleSwitchDb_done
  \/ handleSwitchDb_failed

SpecStart == InitStart /\ [][NextStart]_vars

(***************************************************************************)
(* Properties of the sync engine                                           *)
(***************************************************************************)
\* The step in which a flush in flight settles with a rejected promise.
FlushFails == sync.pc = "writing" /\ sync'.pc = "idle" /\ lastOp' = "performSync_failed"
\* The step in which a flush in flight settles with every promise resolved.
FlushSucceeds == sync.pc = "writing" /\ sync'.pc = "idle" /\ lastOp' = "performSync_done"

\* C1: a flush against a real database that fails leaves the queue exactly as
\* it was, raises the degraded flag and shows an error status; it never
\* clears or shortens the queue.
C1_FailedFlushKeepsQueue ==
  [][FlushFails =>
       /\ sync.db \in RealDbs
       /\ pendingActions' = pendingActions
       /\ dbError'
       /\ StatusType(dbStatus') = "error"]_vars

C1_Witness ==
  /\ lastOp = "performSync_failed"
  /\ activeDbName \in RealDbs
  /\ Len(pendingActions) = 2
  /\ dbError
  /\ StatusType(dbStatus) = "error"

\* C2: a flush of the queue Q against the active real database that succeeds
\* empties the queue, clears the degraded flag, leaves in memory the fold of Q
\* over the snapshot the flush started from, and persists that same fold.
C2_SuccessfulFlush ==
  [][FlushSucceeds /\ sync.db = activeDbName =>
       LET p == applyPendingActions(sync.events, sync.tags, sync.actions)
       IN /\ sync.db \in RealDbs
          /\ pendingActions' = <<>>
          /\ ~dbError'
          /\ events' = p.processedEvents
          /\ customTags' = p.processedTags
          /\ idb'[sync.db].events = Range(p.processedEvents)
          /\ idb'[sync.db].tags = p.processedTags]_vars

C2_Witness ==
  /\ lastOp = "performSync_done"
  /\ activeDbName \in RealDbs
  /\ pendingActions = <<>>
  /\ ~dbError
  /\ \E i \in 1..Len(events) : events[i].id = 1 /\ events[i] \in idb[activeDbName].events
  /\ Includes(customTags, "B") /\ idb[activeDbName].tags = customTags

\* The system sits degraded on a real database with actions retained, and no
\* flush, load or switch is in flight.
DegradedWithQueue ==
  /\ dbError /\ pendingActions # <<>>
  /\ activeDbName \in RealDbs
  /\ ~isLoading /\ sync.pc = "idle" /\ switch.pc = "idle"

\* C3: after a failure has left the system degraded with a non-empty queue, the
\* flush is attempted again on the next timer tick or mutation (so that, once
\* storage works, the retained actions are persisted in the same database):
\* in every such state a flush attempt is pending.
C3_RetryIsPending ==
  DegradedWithQueue /\ lastOp = "performSync_failed" /\ storageOk => ENABLED performSync_start

\* C5: a flush is all-or-nothing: when any of its writes fails, the persisted
\* events, tag list and image blobs of the database are what they were before.
C5_FailedFlushWritesNothing ==
  [][FlushFails =>
       /\ idb'[sync.db].events = idb[sync.db].events
       /\ idb'[sync.db].tags = idb[sync.db].tags
       /\ idb'[sync.db].originalImages = idb[sync.db].originalImages]_vars

\* C4: an action enqueued while a flush is in flight is never dropped: the
\* completion of the flush removes from the queue only the batch it persisted,
\* so every queued action outside that batch is still queued afterwards.
C4_FlushClearsOnlyItsBatch ==
  [][FlushSucceeds =>
       \A i \in 1..Len(pendingActions) :
          pendingActions[i] \notin Range(sync.actions) => Includes(pendingActions', pendingActions[i])]_vars

(***************************************************************************)
(* Properties of the switch / merge controller                             *)
(***************************************************************************)
\* The steps in which the awaits of a handleSwitchDb in flight settle.
SwitchSucceeds == switch.pc = "loading" /\ switch'.pc # "loading" /\ lastOp' = "handleSwitchDb_done"
SwitchFails == switch.pc = "loading" /\ switch'.pc # "loading" /\ lastOp' = "handleSwitchDb_failed"

C7_FailedSwitchKeepsQueue ==
  [][SwitchFails =>
       /\ pendingActions' = pendingActions
       /\ dbError'
       /\ activeDbName' = activeDbName
       /\ notification' = "switchFailed"
       /\ isDbManagerOpen']_vars

C7_Witness ==
  /\ lastOp = "handleSwitchDb_failed"
  /\ pendingActions # <<>>
  /\ dbError /\ isDbManagerOpen /\ notification = "switchFailed"
  /\ activeDbName = DEFAULT_DB_NAME

\* The steps of the discard dialog, and a switch to the demo or the volatile
\* database that happens without it.
DiscardAsked == confirmDiscardChanges = NoDb /\ confirmDiscardChanges' # NoDb
DiscardConfirmed ==
  confirmDiscardChanges # NoDb /\ confirmDiscardChanges' = NoDb /\ lastOp' = "executeDiscardAndSwitch"
DirectVolatileSwitch ==
  nav' # nav /\ lastOp' \in {"handleSwitchDb_temp", "handleSwitchDb_loaded"}

\* What a plain load of the demo or the volatile database puts in memory.
PlainSnapshot(db) ==
  IF db = DEMO_DB_NAME THEN <<demoEvents, demoTags, demoStepTemplates, demoStepSetTemplates>>
  ELSE <<(<<>>), <<>>, <<>>, <<>>>>

\* C8: from the degraded state with a non-empty queue, a request to switch to
\* the demo or the volatile database discards nothing: it only opens the
\* confirmation dialog, leaving the active name, the snapshot, the queue and
\* the degraded flag as they were; the confirmation then empties the queue and
\* loads the target plainly.
C8_DiscardNeedsConfirmation ==
  [][/\ DirectVolatileSwitch => ~(dbError /\ pendingActions # <<>>)
     /\ DiscardAsked =>
          /\ dbError /\ pendingActions # <<>>
          /\ confirmDiscardChanges' \in {DEMO_DB_NAME, TEMP_STORAGE_DB_NAME}
          /\ UNCHANGED <<activeDbName, snapshotVars, pendingActions, dbError>>
     /\ DiscardConfirmed =>
          /\ pendingActions' = <<>>
          /\ ~dbError'
          /\ activeDbName' = confirmDiscardChanges
          /\ snapshotVars' = PlainSnapshot(confirmDiscardChanges)]_vars

C8_Witness ==
  /\ lastOp = "executeDiscardAndSwitch"
  /\ activeDbName = DEMO_DB_NAME
  /\ events = demoEvents
  /\ pendingActions = <<>> /\ ~dbError
  /\ clock > 1

\* C9: a non-empty queue becomes empty only through a flush that succeeded, a
\* merge that persisted its fold, or a discard the user confirmed (the full
\* reset is not among the steps explored here).
QueueEmptied == pendingActions # <<>> /\ pendingActions' = <<>>
C9_QueueEmptiedOnlyBy ==
  [][QueueEmptied =>
       \/ lastOp' = "performSync_done"
       \/ SwitchSucceeds /\ switch.merge
       \/ DiscardConfirmed]_vars

(***************************************************************************)
(* Properties of the mutation handlers                                     *)
(***************************************************************************)
\* The pending-action types that record each handler's edit; no type of the
\* PendingAction union records a template edit or an import.
QueuedAs(op) ==
  CASE op = "handleAddTag" -> {"ADD_TAG"}
    [] op = "handleAddEvent" -> {"ADD_EVENT"}
    [] op \in {"handleUpdateEvent", "handleUpdateSelectionTags"} -> {"UPDATE_EVENT"}
    [] op = "handleUpdateEventSteps" -> {"UPDATE_EVENT_STEPS"}
    [] op = "handleDeleteTags" -> {"DELETE_TAGS"}
    [] op = "handleRenameTag" -> {"RENAME_TAG"}
    [] op = "handleReorderTags" -> {"REORDER_TAGS"}
    [] op \in {"handleDeleteEvent", "executeDeleteSelection"} -> {"DELETE_EVENT"}
    [] OTHER -> {}

\* A step of a mutation-producing operation (each advances the clock).
EditStep == clock' # clock

\* The queue now ends with an action recording the edit, and the snapshot in
\* memory already shows that action's effect.
EditRecorded ==
  /\ pendingActions' # <<>>
  /\ LET a == pendingActions'[Len(pendingActions')]
         m == [events |-> events', tags |-> customTags']
     IN /\ a.type \in QueuedAs(lastOp')
        /\ ApplyAction(m, a) = m

\* C10: while the system cannot write (loading, volatile or degraded), every
\* mutation-producing operation appends a pending action that records it and
\* applies the same change to the snapshot in memory in the same step.
C10_EveryEditIsQueued == [][EditStep /\ CannotWriteNow => EditRecorded]_vars

(***************************************************************************)
(* Properties of the snapshots                                             *)
(***************************************************************************)
\* Every tag an event of the snapshot carries is in the snapshot's tag list.
TagsClosed(evs, tgs) == \A e \in evs : Range(e.tags) \subseteq Range(tgs)

\* C11: in every reachable state the snapshot in memory and the persisted
\* snapshot of every database list, in their tag collection, every tag name
\* that one of their events carries.
C11_EventTagsAreListed ==
  /\ TagsClosed(Range(events), customTags)
  /\ \A n \in IdbNames : TagsClosed(idb[n].events, idb[n].tags)

\* No name occurs twice in the tag list.
NoDuplicates(tgs) == \A i, j \in 1..Len(tgs) : tgs[i] = tgs[j] => i = j

\* C12: in every reachable state the tag collection in memory and the
\* persisted tag collection of every database hold each tag name at most once.
C12_TagNamesAreUnique ==
  /\ NoDuplicates(customTags)
  /\ \A n \in IdbNames : NoDuplicates(idb[n].tags)

\* The image side store of a database record agrees with its event records
\* after the batch `actions` was persisted: every event flagged
\* hasOriginalImage has a blob under its id, and no blob is left under an id
\* the batch deleted.
ImagesConsistent(rec, actions) ==
  /\ \A e \in rec.events : e.hasOriginalImage => e.id \in rec.originalImages
  /\ \A k \in 1..Len(actions) :
       actions[k].type = "DELETE_EVENT" => actions[k].eventId \notin rec.originalImages

\* C13: when a flush or a merge completes, the original-image side store of the
\* database it wrote agrees with the event records of that database.
C13_ImagesFollowEvents ==
  [][/\ FlushSucceeds => ImagesConsistent(idb'[sync.db], sync.actions)
     /\ SwitchSucceeds /\ switch.merge =>
          ImagesConsistent(idb'[switch.target], switch.actions)]_vars

(***************************************************************************)
(* Properties of the demo and the volatile database                        *)
(***************************************************************************)
\* C14: nothing is ever created or written in persistent storage under the
\* demo database's name: loading it and every edit made while it is active
\* stay in memory.
C14_DemoIsNeverPersisted == idb[DEMO_DB_NAME] = NoDatabase

\* A switch (direct, or through the confirmed discard dialog) makes the
\* volatile database active.
SwitchedToVolatile ==
  /\ activeDbName # TEMP_STORAGE_DB_NAME /\ activeDbName' = TEMP_STORAGE_DB_NAME
  /\ lastOp' \in {"handleSwitchDb_temp", "executeDiscardAndSwitch"}

\* C17: a switch that makes the volatile database active leaves the snapshot
\* in memory empty, the queue empty and no active-name preference persisted;
\* the volatile name is never the persisted preference.
C17_VolatileSwitchClearsAll ==
  [][/\ lsActiveDbName' # TEMP_STORAGE_DB_NAME
     /\ SwitchedToVolatile =>
          /\ snapshotVars' = <<(<<>>), <<>>, <<>>, <<>>>>
          /\ pendingActions' = <<>>
          /\ lsActiveDbName' = NoDb]_vars

\* C18: a switch to a non-volatile database N that succeeds (a load or a merge
\* of a real database, the demo data set picked directly or through the discard
\* dialog) makes N active with N's loaded or merged snapshot in memory, empties
\* the queue, clears the degraded flag, resets the status filter, the tag filter
\* and the search text, and persists N as the active-name preference.
SwitchLanded(n) ==
  /\ activeDbName' = n
  /\ lsActiveDbName' = n
  /\ pendingActions' = <<>>
  /\ ~dbError'
  /\ activeFilters' = [status |-> "all", tags |-> <<>>]
  /\ searchQuery' = ""

C18_SuccessfulSwitch ==
  [][/\ SwitchSucceeds =>
          LET t == switch.target
              data == LoadedSnapshot(t)
              p == applyPendingActions(data.events, data.tags, switch.actions)
          IN /\ SwitchLanded(t)
             /\ events' = IF switch.merge THEN p.processedEvents ELSE data.events
             /\ customTags' = IF switch.merge THEN p.processedTags ELSE data.tags
             /\ stepTemplates' = data.stepTemplates
             /\ stepSetTemplates' = data.stepSetTemplates
     /\ \/ nav' # nav /\ lastOp' = "handleSwitchDb_loaded"
        \/ DiscardConfirmed /\ confirmDiscardChanges = DEMO_DB_NAME
        => /\ SwitchLanded(DEMO_DB_NAME)
           /\ snapshotVars' = PlainSnapshot(DEMO_DB_NAME)]_vars

\* A merge into essenmelia-db-work has landed.
C18_Witness ==
  /\ lastOp = "handleSwitchDb_done"
  /\ dbStatus = "merged"
  /\ activeDbName = UserDb /\ lsActiveDbName = UserDb
  /\ \E i \in 1..Len(events) : events[i].id = 1
  /\ pendingActions = <<>> /\ ~dbError
  /\ activeFilters = NoFilters /\ searchQuery = ""

\* C19: picking the database that is already active changes nothing but the
\* database manager, which closes: the active name, the snapshot in memory,
\* the queue, the degraded flag, the persisted preference and the persisted
\* data are what they were, whether the app is healthy, degraded or volatile.
SameDbPicked == nav' # nav /\ lastOp' = "handleSwitchDb_same"
C19_SameDbSwitchIsNoOp ==
  [][SameDbPicked =>
       UNCHANGED <<activeDbName, snapshotVars, pendingActions, dbError, lsActiveDbName, idb>>]_vars

\* The active database was picked while the app is degraded with queued edits.
C19_Witness ==
  /\ lastOp = "handleSwitchDb_same"
  /\ dbError /\ pendingActions # <<>>
  /\ activeDbName \in RealDbs
  /\ ~isDbManagerOpen

(***************************************************************************)
(* Properties of the active database                                       *)
(***************************************************************************)
\* C15: once initializeApp has chosen, the active name is the default, the
\* demo or the volatile name, or a user-created database that is listed in
\* the registry or present in storage: it never names a deleted database.
C15_ActiveDbExists ==
  initApp.pc # "discover" =>
    \/ activeDbName \in {DEFAULT_DB_NAME, DEMO_DB_NAME, TEMP_STORAGE_DB_NAME}
    \/ /\ activeDbName \in RealDbs
       /\ Includes(userDbNames, activeDbName) \/ idb[activeDbName].exists

(***************************************************************************)
(* Properties of the queue                                                 *)
(***************************************************************************)
\* The queue holds at most one UPDATE_EVENT action per event id.
OneUpdatePerEvent(queue) ==
  \A i, j \in 1..Len(queue) :
    queue[i].type = "UPDATE_EVENT" /\ queue[j].type = "UPDATE_EVENT"
      /\ queue[i].event.id = queue[j].event.id => i = j

\* A step of handleUpdateEvent or handleUpdateSelectionTags that enqueues.
UpdateQueued ==
  /\ EditStep /\ CannotWriteNow
  /\ lastOp' \in {"handleUpdateEvent", "handleUpdateSelectionTags"}

\* C16: the queue never holds two update-event actions for the same event id,
\* and after an update is enqueued the one action queued for that id is the
\* last of the queue and carries the event as it now is in memory.
C16_OneUpdatePerEvent ==
  [][/\ OneUpdatePerEvent(pendingActions')
     /\ UpdateQueued =>
          LET a == pendingActions'[Len(pendingActions')]
          IN /\ a.type = "UPDATE_EVENT"
             /\ \A i \in 1..Len(events') : events'[i].id = a.event.id => events'[i] = a.event]_vars

\* Two updates of the tutorial event were made while the initial load was
\* still running, so both were enqueued (title, then steps, or the reverse),
\* and one action is queued for the event, carrying both.
C16_Witness ==
  /\ lastOp = "handleUpdateEvent"
  /\ clock = 3
  /\ isLoading
  /\ Len(SelectSeq(pendingActions, LAMBDA a : a.type = "UPDATE_EVENT")) = 1
  /\ \E i \in 1..Len(pendingActions) :
       /\ pendingActions[i].type = "UPDATE_EVENT"
       /\ pendingActions[i].event.id = TutorialId
       /\ pendingActions[i].event.title = "t1"
       /\ pendingActions[i].event.steps = <<TRUE>>

(***************************************************************************)
(* Properties of the startup                                               *)
(***************************************************************************)
\* The step in which initializeApp chooses the active database.
ActiveDbChosen == initApp.pc = "discover" /\ initApp'.pc # "discover"

\* The stated precedence over the discovered names and the stored preference.
StatedChoice(found, stored) ==
  IF stored # NoDb /\ Includes(found, stored) THEN stored
  ELSE IF Includes(found, DEFAULT_DB_NAME) THEN DEFAULT_DB_NAME
  ELSE IF found # <<>> THEN found[1]
  ELSE TEMP_STORAGE_DB_NAME

\* The choice follows the stated precedence, and volatile mode leaves no
\* preference persisted.
ChoiceIsStated ==
  /\ activeDbName' = StatedChoice(discoverDatabases, lsActiveDbName)
  /\ activeDbName' = TEMP_STORAGE_DB_NAME => lsActiveDbName' = NoDb

\* C20 as stated: at every startup the active database is the stored name if
\* it is among the discovered databases, else the default name if discovered,
\* else the first discovered name, else (none discovered) the volatile
\* database with no preference left persisted.
C20_StartupPrecedenceAlways == [][ActiveDbChosen => ChoiceIsStated]_vars

\* C20, amended: that precedence is followed at every startup but the first
\* launch (no 'hasLaunchedBefore' marker), where the default database is
\* chosen, registered and stored as the preference whatever was discovered.
C20_StartupPrecedence ==
  [][ActiveDbChosen =>
       IF hasLaunchedBefore THEN ChoiceIsStated
       ELSE /\ activeDbName' = DEFAULT_DB_NAME
            /\ lsActiveDbName' = DEFAULT_DB_NAME
            /\ Includes(userDbNames', DEFAULT_DB_NAME)]_vars

\* A returning user whose stored database is gone and whose default database
\* is listed after another one: the default database was chosen.
C20_Witness ==
  /\ lastOp = "initializeApp_discover"
  /\ userDbNames = <<UserDb, DEFAULT_DB_NAME>>
  /\ activeDbName = DEFAULT_DB_NAME
  /\ lsActiveDbName = DEFAULT_DB_NAME
  /\ initApp.pc = "load"

(***************************************************************************)
(* Properties of creating and formatting                                   *)
(***************************************************************************)
\* The steps of handleCreateNewDb, by outcome.
CreateRejected == nav' # nav /\ lastOp' = "handleCreateNewDb_conflict"
CreateAdmitted == nav' # nav /\ lastOp' = "handleCreateNewDb_start"
CreateAccepted == create.pc = "opening" /\ lastOp' = "handleCreateNewDb_done"

\* What C21 asks of one step.
CreateContract ==
  /\ CreateAdmitted =>
       /\ create'.fullName # DEMO_DB_NAME
       /\ (create'.fullName \in IdbNames => ~idb[create'.fullName].exists)
  /\ CreateRejected =>
       UNCHANGED <<userDbNames, activeDbName, snapshotVars, pendingActions, idb,
                   lsActiveDbName>>
  /\ CreateAccepted =>
       /\ userDbNames' = Append(userDbNames, create.fullName)
       /\ ~Includes(userDbNames, create.fullName)
       /\ activeDbName' = activeDbName

\* C21: a create is admitted only for a name that denotes no existing and no
\* reserved database; a create rejected for a name conflict changes neither
\* registry, active database, snapshot, queue nor storage; an accepted create
\* adds exactly its name to the registry and keeps the active database.
C21_CreateContract == [][CreateContract]_vars

\* handleFormatApp reported success.
FormatCompleted == nav' # nav /\ lastOp' \in {"handleFormatApp_done", "handleFormatApp_temp"}

\* C22: whatever state the format is confirmed in (healthy, degraded or
\* volatile), once it has reported success no application database exists
\* any more and no active-name preference or launch marker is persisted.
C22_FormatDeletesEverything ==
  [][FormatCompleted =>
       /\ \A n \in IdbNames : ~idb'[n].exists
       /\ lsActiveDbName' = NoDb
       /\ ~hasLaunchedBefore']_vars

(***************************************************************************)
(* Properties of the loader                                                *)
(***************************************************************************)
\* loadData(db) resolved in this step, at startup or in a switch that merges
\* nothing.
LoadCompleted(db) ==
  \/ initApp.pc = "load" /\ initApp.db = db /\ lastOp' = "initializeApp_loaded"
  \/ SwitchSucceeds /\ switch.target = db /\ ~switch.merge

\* The collections and the marker a first load of db stores.
SeedOf(db) ==
  [NoDatabase EXCEPT !.exists = TRUE, !.isSeeded = TRUE,
     !.events = IF db = DEFAULT_DB_NAME THEN {tutorialEvent} ELSE {},
     !.tags = IF db = DEFAULT_DB_NAME THEN <<TutorialTag>> ELSE <<>>]

SameCollections(a, b) ==
  /\ a.events = b.events /\ a.tags = b.tags
  /\ a.stepTemplates = b.stepTemplates /\ a.stepSetTemplates = b.stepSetTemplates

\* What C23 asks of one step.
SeededOnce ==
  \A db \in RealDbs :
    /\ LoadCompleted(db) =>
         /\ idb'[db].isSeeded
         /\ IF idb[db].isSeeded
            THEN idb'[db] = idb[db]
            ELSE SameCollections(idb'[db], SeedOf(db))
         /\ Range(events') = idb'[db].events
         /\ customTags' = idb'[db].tags
    /\ (idb[db].isSeeded /\ idb'[db].exists) => idb'[db].isSeeded
    /\ (~idb[db].isSeeded /\ idb'[db].isSeeded) =>
         \/ lastOp' = "initializeApp_loaded"
         \/ lastOp' = "handleSwitchDb_done"

\* C23: a completed first load of the default database stores the tutorial
\* event and tag, a completed first load of another database stores empty
\* collections, both set the seeded marker; a load of a database that carries
\* the marker leaves its stored collections as they are and returns them; the
\* marker is set by loads only and stays while the database exists.
C23_SeededAtMostOnce == [][SeededOnce]_vars

\* The default database, stored with the tutorial event deleted, was loaded at
\* startup: the event list is empty and so is the stored one.
C23_Witness ==
  /\ lastOp = "initializeApp_loaded"
  /\ activeDbName = DEFAULT_DB_NAME
  /\ idb[DEFAULT_DB_NAME].isSeeded
  /\ idb[DEFAULT_DB_NAME].events = {}
  /\ idb[DEFAULT_DB_NAME].tags = <<TutorialTag>>
  /\ events = <<>>

(***************************************************************************)
(* Properties of a failed load                                             *)
(***************************************************************************)
\* `await loadData` of initializeApp rejected in this step.
InitialLoadFails == initApp.pc = "load" /\ lastOp' = "initializeApp_failed"

\* What C24 asks of one step.
FailedLoadDegrades ==
  /\ InitialLoadFails =>
       /\ ~isLoading'
       /\ dbError'
       /\ StatusType(dbStatus') = "error"
       /\ pendingActions' = pendingActions
  /\ SwitchFails =>
       /\ StatusType(dbStatus') # "loading"
       /\ dbError'
       /\ notification' = "switchFailed"
       /\ pendingActions' = pendingActions
  /\ (EditStep /\ dbError /\ QueuedAs(lastOp') # {}) => EditRecorded

\* C24: when the initial load or the load of a switch is rejected, loading
\* ends (the loading flag, or the 'connecting' banner of the switch), the
\* degraded flag is set, an error is surfaced (status banner or notification),
\* the queue is what it was, and every later event or tag edit made while the
\* flag is set is appended to the queue.
C24_FailedLoadDegrades == [][FailedLoadDegrades]_vars

\* The initial load was rejected while the queue held the edits made during
\* the load: they are still queued, loading is over, the app is degraded.
C24_Witness ==
  /\ lastOp = "initializeApp_failed"
  /\ ~isLoading /\ dbError
  /\ dbStatus = "loadFailed"
  /\ Len(pendingActions) = 2
  /\ pendingActions[2].type = "ADD_EVENT"

(***************************************************************************)
(* Properties of the import                                                *)
(***************************************************************************)
\* executeImport adopted the merged collections in this step.
ImportStep ==
  /\ lastOp' \in {"executeImport_temp", "executeImport_saved"}
  /\ storageOk' = storageOk

\* The ids already in use: in memory and in the active database.
IdsInUse ==
  Ids(events) \cup (IF activeDbName \in IdbNames
                    THEN { e.id : e \in idb[activeDbName].events } ELSE {})

\* The step merged document doc into the snapshot in memory.
ImportMerged(doc) ==
  LET m == Len(events)
      n == Len(doc.events)
      new == SubSeq(events', m + 1, m + n)
  IN /\ Len(events') = m + n
     /\ SubSeq(events', 1, m) = events
     /\ \A i \in 1..n : [new[i] EXCEPT !.id = doc.events[i].id] = doc.events[i]
     /\ \A i \in 1..n : new[i].id \notin IdsInUse
     /\ \A i, j \in 1..n : i # j => new[i].id # new[j].id
     /\ Range(customTags') = Range(customTags) \cup Range(doc.tags)

NoReference(evs, tgs, S) ==
  /\ \A i \in 1..Len(tgs) : tgs[i] \notin S
  /\ \A i \in 1..Len(evs) : \A k \in 1..Len(evs[i].tags) : evs[i].tags[k] \notin S

\* evs2/tgs2 are evs/tgs with the tags of S taken out and nothing else changed.
TagsRemoved(evs, tgs, evs2, tgs2, S) ==
  /\ NoReference(evs2, tgs2, S)
  /\ tgs2 = SelectSeq(tgs, LAMBDA t : t \notin S)
  /\ Len(evs2) = Len(evs)
  /\ \A i \in 1..Len(evs) :
       /\ evs2[i].tags = SelectSeq(evs[i].tags, LAMBDA t : t \notin S)
       /\ [evs2[i] EXCEPT !.tags = evs[i].tags] = evs[i]

\* Folding delete-tags(S) alone over the snapshot in memory, for every S.
FoldDeletesTags ==
  \A S \in SUBSET Tags :
    LET p == applyPendingActions(events, customTags, <<DeleteTagsAction(S)>>)
    IN TagsRemoved(events, customTags, p.processedEvents, p.processedTags, S)

\* A step of handleDeleteTags.
TagsDeleted == clock' # clock /\ lastOp' = "handleDeleteTags"

\* C26: folding delete-tags(S) over a snapshot, and the direct handleDeleteTags,
\* take every tag of S out of the tag collection and out of every event's tag
\* set in one step and change nothing else, so that afterwards no event of
\* the snapshot references a tag of S.
C26_TagDeletionIsTransitive ==
  [][/\ FoldDeletesTags
     /\ TagsDeleted =>
          \E S \in SUBSET Tags : S # {} /\ TagsRemoved(events, customTags, events', customTags', S)]_vars

\* The tutorial tag was deleted while the tutorial event carried it: the event
\* is still there, without the tag, and the tag collection has lost it.
C26_Witness ==
  /\ lastOp = "handleDeleteTags"
  /\ ~Includes(customTags, TutorialTag)
  /\ \E i \in 1..Len(events) : events[i].id = TutorialId /\ events[i].tags = <<>>

\* evs2/tgs2 are evs/tgs with every occurrence of tag o replaced by n.
TagRenamed(evs, tgs, evs2, tgs2, o, n) ==
  /\ Len(tgs2) = Len(tgs)
  /\ \A i \in 1..Len(tgs) : tgs2[i] = IF tgs[i] = o THEN n ELSE tgs[i]
  /\ Len(evs2) = Len(evs)
  /\ \A i \in 1..Len(evs) :
       /\ Len(evs2[i].tags) = Len(evs[i].tags)
       /\ \A k \in 1..Len(evs[i].tags) :
            evs2[i].tags[k] = IF evs[i].tags[k] = o THEN n ELSE evs[i].tags[k]
       /\ [evs2[i] EXCEPT !.tags = evs[i].tags] = evs[i]
       /\ Includes(evs[i].tags, o) => Includes(evs2[i].tags, n)
  /\ o # n => NoReference(evs2, tgs2, {o})

\* Folding rename-tag(o, n) alone over the snapshot in memory, for all o, n.
FoldRenamesTag ==
  \A o \in Tags, n \in Tags :
    LET p == applyPendingActions(events, customTags, <<RenameTagAction(o, n)>>)
    IN TagRenamed(events, customTags, p.processedEvents, p.processedTags, o, n)

\* A step of handleRenameTag.
TagRenameDone == clock' # clock /\ lastOp' = "handleRenameTag"

\* The renames handleRenameTag must refuse.
RenameRefused(o, n) == n = "" \/ (Includes(customTags, n) /\ n # o)

\* C27: folding rename-tag(old, new) over a snapshot, and the direct
\* handleRenameTag, replace old by new in the tag collection and in every
\* event's tag set and change nothing else: every event that referenced old
\* references new, and (for old # new) old occurs nowhere; a rename to the
\* empty name or to a different tag that already exists makes no step at all.
C27_RenameRewritesEverywhere ==
  [][/\ FoldRenamesTag
     /\ TagRenameDone =>
          \E o \in Tags, n \in Tags \cup {""} :
            /\ ~RenameRefused(o, n)
            /\ TagRenamed(events, customTags, events', customTags', o, n)]_vars

\* The tutorial tag was renamed to "B" while the tutorial event carried it: the
\* event now carries "B" and the old name is gone from collection and event.
C27_Witness ==
  /\ lastOp = "handleRenameTag"
  /\ Includes(customTags, "B") /\ ~Includes(customTags, TutorialTag)
  /\ \E i \in 1..Len(events) : events[i].id = TutorialId /\ events[i].tags = <<"B">>

(***************************************************************************)
(* Properties of the fold                                                  *)
(***************************************************************************)
NoDuplicateIds(evs) == \A i, j \in 1..Len(evs) : evs[i].id = evs[j].id => i = j

FoldedEvents(evs, tgs, actions) == applyPendingActions(evs, tgs, actions).processedEvents

\* Folding an add-event whose id the list already holds changes nothing, be
\* the id in the base or brought in by the add-event folded just before.
AddOfPresentIdIsNoOp ==
  \A e \in FoldEvents :
    /\ e.id \in Ids(events) =>
         FoldedEvents(events, customTags, <<AddEventAction(e, "none")>>) = events
    /\ \A f \in FoldEvents :
         f.id = e.id =>
           FoldedEvents(events, customTags, <<AddEventAction(e, "none"), AddEventAction(f, "none")>>)
             = FoldedEvents(events, customTags, <<AddEventAction(e, "none")>>)

\* applyPendingActions was applied in this step.
FoldApplied == lastOp' = "applyPendingActions"

\* C28: folding an add-event action whose id is already present, in the base
\* or through an earlier action of the sequence, leaves the event list as it
\* is; and the fold of any action sequence over a base without duplicate ids
\* is an event list without duplicate ids.
C28_FoldKeepsIdsUnique ==
  [][/\ AddOfPresentIdIsNoOp
     /\ (FoldApplied /\ NoDuplicateIds(events)) => NoDuplicateIds(events')]_vars

\* A queue that adds event 1 twice (and nothing else about event 1 after it)
\* was folded: the list holds event 1 once, in the version added first.
C28_Witness ==
  /\ lastOp = "applyPendingActions"
  /\ Len(pendingActions) = 2
  /\ pendingActions[1] = AddEventAction(Ev(1, "t1", <<>>, <<>>, "none", FALSE), "none")
  /\ pendingActions[2] = AddEventAction(Ev(1, "t0", <<>>, <<TutorialTag>>, "none", FALSE), "none")
  /\ events = <<Ev(1, "t1", <<>>, <<>>, "none", FALSE)>>

(***************************************************************************)
(* Properties of the volatile mode                                         *)
(***************************************************************************)
Volatile == activeDbName = TEMP_STORAGE_DB_NAME

AddSubmitted == lastOp' = "handleAddEvent" /\ clock' # clock

DeleteSubmitted == lastOp' = "handleDeleteEvent" /\ clock' # clock

\* The queue grew by ADD_TAG actions (for the tags the event brought in)
\* followed by the ADD_EVENT action of the event now at the head of the list.
AddRecorded ==
  LET n == Len(pendingActions)
      m == Len(pendingActions')
  IN /\ m > n
     /\ SubSeq(pendingActions', 1, n) = pendingActions
     /\ \A i \in (n + 1)..(m - 1) : pendingActions'[i].type = "ADD_TAG"
     /\ pendingActions'[m].type = "ADD_EVENT"
     /\ pendingActions'[m].event = events'[1]

AddThenDelete ==
  /\ (Volatile /\ events = <<>> /\ AddSubmitted) =>
       /\ Len(events') = 1
       /\ events'[1].id = clock
       /\ AddRecorded
  /\ (Volatile /\ Len(events) = 1 /\ DeleteSubmitted) =>
       /\ events' = <<>>
       /\ pendingActions' = Append(pendingActions, DeleteEventAction(events[1].id))

\* C29: in volatile mode with an empty snapshot, submitting add-event gives
\* an event list of length 1 that holds the new event, and submitting
\* delete-event for its id then gives an empty list; the queue records the
\* add-event action and after it the delete-event action.
C29_VolatileAddThenDelete == [][AddThenDelete]_vars

\* Volatile mode, an event added to the empty snapshot and deleted again: the
\* list is empty and the queue holds the add-event and then the delete-event.
C29_Witness ==
  /\ Volatile
  /\ lastOp = "handleDeleteEvent"
  /\ events = <<>>
  /\ Len(pendingActions) = 2
  /\ pendingActions[1].type = "ADD_EVENT"
  /\ pendingActions[2] = DeleteEventAction(pendingActions[1].event.id)

(***************************************************************************)
(* Properties of the navigate-away warning                                 *)
(***************************************************************************)
\* C30: the navigate-away warning is registered exactly when the app is
\* degraded (dbError set) and the queue is not empty, in every reachable state.
C30_WarningArmedIffDegradedWithQueue ==
  beforeUnloadListener <=> (dbError /\ pendingActions # <<>>)

\* The app went degraded with edits queued and the warning is registered.
C30_Witness ==
  /\ beforeUnloadListener
  /\ dbError
  /\ pendingActions # <<>>
  /\ lastOp \in {"performSync_failed", "handleSwitchDb_failed", "handleAddEvent"}

(***************************************************************************)
(* Properties of the debounced save after a failed load                    *)
(***************************************************************************)
\* The debounced save runs in the state the failed initial load left (with
\* nothing but storage failures and recoveries in between).
SaveAfterFailedLoad == lastOp = "initializeApp_failed" /\ lastOp' = "saveData"

\* C31: after the initial load of database D failed and the snapshot in
\* memory fell back to empty, no debounced save writes that snapshot into D:
\* the events, tags and templates stored in D are what they were.
C31_FailedLoadNeverOverwrites ==
  [][SaveAfterFailedLoad => SameCollections(idb'[activeDbName], idb[activeDbName])]_vars

(***************************************************************************)
(* Properties of completions that outlive a change of the active database  *)
(***************************************************************************)
\* The flush in flight was started while another database was active, and
\* this step is its completion.
ForeignFlushCompletes ==
  /\ sync.pc = "writing"
  /\ sync.db # activeDbName
  /\ sync' = IdleSync

\* C32: the completion of a flush that started while database A was active
\* does not replace the snapshot in memory or empty the queue of the database
\* (or volatile state) that became active in the meantime.
C32_CompletionStaysWithItsDatabase ==
  [][ForeignFlushCompletes =>
        (events' = events /\ customTags' = customTags /\ pendingActions' = pendingActions)]_vars

(***************************************************************************)
(* Properties of edits made while a flush is in flight                     *)
(***************************************************************************)
\* The flush in flight on the active database completes in this step.
OwnFlushCompletes ==
  /\ sync.pc = "writing"
  /\ sync.db = activeDbName
  /\ lastOp' = "performSync_done"
  /\ sync' = IdleSync

\* Events in memory that the flush in flight knows nothing of: added to the
\* snapshot after the flush read it.
AddedDuringFlush ==
  { e \in Range(events) :
      e.id \notin Ids(applyPendingActions(sync.events, sync.tags, sync.actions).processedEvents) }

\* C33: an edit applied directly to the snapshot in memory while a flush is
\* in flight is not lost: when the flush completes, the events in memory still
\* hold what the edit added next to the effects of the flushed actions.
C33_ConcurrentEditSurvivesFlush ==
  [][OwnFlushCompletes => AddedDuringFlush \subseteq Range(events')]_vars

(***************************************************************************)
(* Properties of the snapshot against the queue                            *)
(***************************************************************************)
\* The initial load ends in this step, by completing or by failing.
InitialLoadEnds == initApp.pc = "load" /\ initApp'.pc = "done"

\* What the load brought (what was read, or the empty fallback of a failure).
LoadBaseline ==
  IF lastOp' = "initializeApp_loaded"
  THEN [events |-> LoadedSnapshot(initApp.db).events, tags |-> LoadedSnapshot(initApp.db).tags]
  ELSE [events |-> <<>>, tags |-> <<>>]

QueueVisibleAfterLoad ==
  (InitialLoadEnds /\ pendingActions' # <<>>) =>
    LET p == applyPendingActions(LoadBaseline.events, LoadBaseline.tags, pendingActions')
    IN events' = p.processedEvents /\ customTags' = p.processedTags

\* C34: snapshot and queue do not drift apart: the events and tags in memory
\* are the fold of the queue over the baseline; in particular, when the
\* initial load completes or fails with actions queued during it, memory
\* still shows the effects of those actions.
C34_SnapshotIsFoldOfQueue == [][QueueVisibleAfterLoad]_vars

(***************************************************************************)
(* Properties of the persistence of direct edits                           *)
(***************************************************************************)
\* Healthy on a real database with nothing left to run: no load, flush,
\* switch or creation in flight, no timer armed, nothing queued, no error.
HealthyAtRest ==
  /\ activeDbName \in RealDbs
  /\ ~isLoading /\ ~dbError
  /\ pendingActions = <<>>
  /\ ~saveTimer
  /\ initApp.pc = "done" /\ sync.pc = "idle" /\ switch.pc = "idle" /\ create.pc = "idle"

\* C35: an edit accepted in healthy mode ends up persisted in the database
\* that was active, or the app becomes degraded: a debounced save that is
\* cancelled or that fails never leaves a healthy database at rest with
\* stored events and tags that differ from those in memory.
C35_HealthyMemoryIsPersisted ==
  HealthyAtRest =>
    /\ idb[activeDbName].events = PutAllById(events)
    /\ idb[activeDbName].tags = customTags

(***************************************************************************)
(* Properties of the trigger of the flush                                  *)
(***************************************************************************)
\* performSync starts in this step, from the timer of the current render.
FlushStarts ==
  /\ sync.pc = "idle"
  /\ lastOp' \in {"performSync_start", "performSync_done"}
  /\ storageOk' = storageOk

\* The modes in which the sync engine is to be at rest.
LoadingVolatileOrDegraded == isLoading \/ isTempStorageMode \/ dbError

FlushOnlyWhenHealthy ==
  /\ FlushStarts =>
       /\ ~LoadingVolatileOrDegraded
       /\ pendingActions # <<>>
       /\ sync'.pc = "writing" => sync'.actions = pendingActions
  /\ sync'.pc = "writing" => ~LoadingVolatileOrDegraded'

\* C36: a flush is started only when loading has finished, the active
\* database is not volatile, no error is set and the queue is non-empty, and
\* it takes the latest queue; no flush runs while the app is loading,
\* volatile or degraded.
C36_FlushOnlyWhenHealthy == [][FlushOnlyWhenHealthy]_vars

(***************************************************************************)
(* Properties of the deletion of a database                                *)
(***************************************************************************)
\* Where the active pointer goes when the active database is deleted and
\* `remaining` is the registry without it.
NextAfterDelete(remaining) ==
  IF Includes(remaining, DEFAULT_DB_NAME) THEN DEFAULT_DB_NAME
  ELSE IF remaining # <<>> THEN remaining[1] ELSE TEMP_STORAGE_DB_NAME

\* handleDeleteDb has done its part in this step and the deleteDatabase
\* request for the database goes out.
DeletionRequested == switch.pc # "deleting" /\ switch'.pc = "deleting"

\* The confirmed deletion is of a database that is not the active one.
DeletesOther ==
  dbToDelete # NoDb /\ dbToDelete # activeDbName /\ lastOp' = "handleDeleteDb_other" /\ nav' # nav

\* The deleteDatabase request succeeds in this step.
DeletionSucceeds == switch.pc = "deleting" /\ switch'.pc = "idle" /\ storageOk

DeleteContract ==
  /\ DeletionRequested =>
       /\ activeDbName' # switch'.deleting
       /\ activeDbName # activeDbName' =>
            /\ activeDbName' = NextAfterDelete(switch'.newDbNames)
            /\ activeDbName' = TEMP_STORAGE_DB_NAME => (events' = <<>> /\ pendingActions' = <<>>)
  /\ DeletesOther =>
       UNCHANGED <<activeDbName, events, customTags, stepTemplates, stepSetTemplates,
                   pendingActions>>
  /\ DeletionSucceeds =>
       /\ ~idb'[switch.deleting].exists
       /\ ~Includes(userDbNames', switch.deleting)

\* C37: deleting the active database first moves the active pointer, to the
\* default database if it remains, else to the first remaining one, else to
\* volatile mode with an empty snapshot and queue, and only then requests the
\* deletion; the name leaves the registry when the deletion succeeds; deleting
\* another database leaves active name, snapshot and queue as they are.
C37_DeleteMovesActiveFirst == [][DeleteContract]_vars

(***************************************************************************)
(* Properties of the recovery from degraded mode                           *)
(***************************************************************************)
\* Degraded on a real database with actions queued, nothing in flight, the
\* database manager open and storage working.
DegradedAtRest ==
  /\ dbError /\ ~isLoading
  /\ activeDbName \in RealDbs
  /\ pendingActions # <<>>
  /\ initApp.pc = "done" /\ sync.pc = "idle" /\ switch.pc = "idle"
  /\ isDbManagerOpen /\ nav < MaxNav
  /\ storageOk

\* A step that keeps the active database and either clears the error or
\* starts persisting the queue into that database (a flush, or a connection
\* to the database the app is already on).
RecoveryOnSameDb ==
  /\ Next
  /\ activeDbName' = activeDbName
  /\ \/ ~dbError'
     \/ sync'.pc = "writing"
     \/ switch'.pc = "loading" /\ switch'.target = activeDbName

\* C38: degraded mode is recoverable against the same database: in a degraded
\* state, once storage works, the user has an operation that brings the app
\* back to healthy on the active database with the queue persisted, without
\* creating or switching to another database.
C38_DegradedIsRecoverable == DegradedAtRest => ENABLED RecoveryOnSameDb

(***************************************************************************)
(* Properties of the step toggle of the detail view                        *)
(***************************************************************************)
\* handleUpdateEvent ran in this step with an event whose steps differ from
\* those in memory: the toggle of a step in the detail view.
StepToggled ==
  /\ lastOp' = "handleUpdateEvent"
  /\ clock' # clock
  /\ Len(events') = Len(events)
  /\ \E i \in 1..Len(events) : events'[i].steps # events[i].steps

\* Every event is what it was except for its steps, in memory and, on the
\* queued path, in the action appended to the queue.
OnlyStepsChanged ==
  /\ \A i \in 1..Len(events) : events'[i] = [events[i] EXCEPT !.steps = events'[i].steps]
  /\ pendingActions' # pendingActions =>
       LET a == pendingActions'[Len(pendingActions')]
       IN \A i \in 1..Len(events) :
            a.event.id = events[i].id => a.event = [events[i] EXCEPT !.steps = a.event.steps]

\* C39: toggling a step in the detail view, an update-event without image
\* change, changes only the steps of that event: title, tags, imageUrl and
\* hasOriginalImage stay, on the direct path and on the queued path.
C39_ToggleChangesOnlySteps == [][StepToggled => OnlyStepsChanged]_vars

(***************************************************************************)
(* Properties of the bulk delete                                           *)
(***************************************************************************)
\* executeDeleteSelection ran in this step on the queued path.
BulkDeleted == lastOp' = "executeDeleteSelection" /\ clock' # clock /\ CannotWriteNow

\* The ids the bulk delete was given: those that left the list.
DeletedIds == Ids(events) \ Ids(events')

\* The action is about an event of S.
Concerns(a, S) ==
  CASE a.type \in {"ADD_EVENT", "UPDATE_EVENT"} -> a.event.id \in S
    [] a.type \in {"UPDATE_EVENT_STEPS", "DELETE_EVENT"} -> a.eventId \in S
    [] OTHER -> FALSE

BulkDeleteContract ==
  LET S == DeletedIds
      q == pendingActions'
      kept == Len(q) - Cardinality(S)
  IN /\ kept >= 0
     /\ \A i \in 1..kept : ~Concerns(q[i], S)
     /\ \A i \in (kept + 1)..Len(q) : q[i].type = "DELETE_EVENT" /\ q[i].eventId \in S
     /\ \A id \in S : Cardinality({ i \in 1..Len(q) : q[i] = DeleteEventAction(id) }) = 1
     /\ SubSeq(q, 1, kept) = SelectSeq(pendingActions, LAMBDA a : ~Concerns(a, S))
     /\ \A base \in FoldBases : Ids(FoldedEvents(base, customTags, q)) \cap S = {}

\* C40: a bulk delete of the ids S on the queued path leaves the queue with
\* no add-event, update-event or update-event-steps action for an id of S and
\* with exactly one delete-event per id of S, appended at the tail; the other
\* queued actions keep their order; the fold of the new queue over any base
\* has no event with an id of S.
C40_BulkDeleteCleansQueue == [][BulkDeleted => BulkDeleteContract]_vars

\* A bulk delete of event 1 from a queue that held actions about it between
\* two other actions: the others remain in order and the delete is last.
C40_Witness ==
  /\ lastOp = "executeDeleteSelection"
  /\ pendingActions = <<AddTagAction("B"), AddEventAction(Ev(2, "t0", <<>>, <<>>, "none", FALSE), "none"),
                        DeleteEventAction(1)>>
  /\ 1 \notin Ids(events)

=============================================================================
